---- MODULE Spec2Model ----
(***************************************************************************)
(* A model of the PNG chunk editor of lib/image/png.ts (PngHelpers and     *)
(* calculateCRC) with its caller getSvgAsImage, of DesignService, of       *)
(* DesignAgent.generateDesign with withRetry, and of Logger.  Each has its *)
(* own specification: Spec, DesignSpec, AgentSpec (AgentLiveSpec with      *)
(* fairness) and LoggerSpec.  Further specifications model                 *)
(* getBrowserCanvasMaxSize (CanvasSpec), uploadImages (UploadSpec), POST   *)
(* /api/activateAgent (RouteSpec), Monitoring with GET /api/health         *)
(* (HealthSpec), ErrorHandler (ErrorSpec) and ErrorLogging (ErrorLogSpec). *)
(* A DataView is a sequence of bytes; byte offset o of the code is element *)
(* o + 1 of the sequence.  A 32-bit word is a pair                         *)
(* <<high 16 bits, low 16 bits>> so that every bit pattern is kept.        *)
(***************************************************************************)
EXTENDS Integers, Sequences, FiniteSets, TLC

(* ------------------------------ bounds --------------------------------- *)

\* longest list of chunks between IHDR and the closing IEND
MaxChunks == 3
\* largest data length of a generated IDAT / tEXt chunk
MaxData == 1
\* longest run of bytes appended after the chunk stream
MaxTrail == 1
\* device pixel ratios are the fractions n / DprDen, n in 1 .. MaxDprNum
DprDen == 2
MaxDprNum == 2
\* design ids handed out by createDesign
MaxDesigns == 2
\* calls of getBrowserCanvasMaxSize in one page
MaxSizeCalls == 3
\* images handed to uploadImages in one call
MaxImages == 2
\* requests POST /api/activateAgent answers one after the other
MaxRequests == 2
\* GET /api/health requests under way at the same time
MaxHealthGets == 2
\* errors handed to ErrorLogging.logError
MaxErrors == 3

(* --------------------------- program constants ------------------------- *)

SIGNATURE == <<137, 80, 78, 71, 13, 10, 26, 10>>
\* DPI_96 = 2835.5, kept in tenths
DPI_96_TENTHS == 28355
LENGTH_SIZE == 4
CRC_SIZE == 4
\* default insertion offset of setPhysChunk
DefaultOffsetAfterSignature == LENGTH_SIZE + CRC_SIZE
DEFAULT_OFFSET == 46
\* size of the buffer setPhysChunk builds for the new chunk
PHYS_CHUNK_BYTES == 21

CRC_TABLE == <<
    <<\h0000, \h0000>>, <<\h7707, \h3096>>, <<\hEE0E, \h612C>>, <<\h9909, \h51BA>>,
    <<\h076D, \hC419>>, <<\h706A, \hF48F>>, <<\hE963, \hA535>>, <<\h9E64, \h95A3>>,
    <<\h0EDB, \h8832>>, <<\h79DC, \hB8A4>>, <<\hE0D5, \hE91E>>, <<\h97D2, \hD988>>,
    <<\h09B6, \h4C2B>>, <<\h7EB1, \h7CBD>>, <<\hE7B8, \h2D07>>, <<\h90BF, \h1D91>>,
    <<\h1DB7, \h1064>>, <<\h6AB0, \h20F2>>, <<\hF3B9, \h7148>>, <<\h84BE, \h41DE>>,
    <<\h1ADA, \hD47D>>, <<\h6DDD, \hE4EB>>, <<\hF4D4, \hB551>>, <<\h83D3, \h85C7>>,
    <<\h136C, \h9856>>, <<\h646B, \hA8C0>>, <<\hFD62, \hF97A>>, <<\h8A65, \hC9EC>>,
    <<\h1401, \h5C4F>>, <<\h6306, \h6CD9>>, <<\hFA0F, \h3D63>>, <<\h8D08, \h0DF5>>,
    <<\h3B6E, \h20C8>>, <<\h4C69, \h105E>>, <<\hD560, \h41E4>>, <<\hA267, \h7172>>,
    <<\h3C03, \hE4D1>>, <<\h4B04, \hD447>>, <<\hD20D, \h85FD>>, <<\hA50A, \hB56B>>,
    <<\h35B5, \hA8FA>>, <<\h42B2, \h986C>>, <<\hDBBB, \hC9D6>>, <<\hACBC, \hF940>>,
    <<\h32D8, \h6CE3>>, <<\h45DF, \h5C75>>, <<\hDCD6, \h0DCF>>, <<\hABD1, \h3D59>>,
    <<\h26D9, \h30AC>>, <<\h51DE, \h003A>>, <<\hC8D7, \h5180>>, <<\hBFD0, \h6116>>,
    <<\h21B4, \hF4B5>>, <<\h56B3, \hC423>>, <<\hCFBA, \h9599>>, <<\hB8BD, \hA50F>>,
    <<\h2802, \hB89E>>, <<\h5F05, \h8808>>, <<\hC60C, \hD9B2>>, <<\hB10B, \hE924>>,
    <<\h2F6F, \h7C87>>, <<\h5868, \h4C11>>, <<\hC161, \h1DAB>>, <<\hB666, \h2D3D>>,
    <<\h76DC, \h4190>>, <<\h01DB, \h7106>>, <<\h98D2, \h20BC>>, <<\hEFD5, \h102A>>,
    <<\h71B1, \h8589>>, <<\h06B6, \hB51F>>, <<\h9FBF, \hE4A5>>, <<\hE8B8, \hD433>>,
    <<\h7807, \hC9A2>>, <<\h0F00, \hF934>>, <<\h9609, \hA88E>>, <<\hE10E, \h9818>>,
    <<\h7F6A, \h0DBB>>, <<\h086D, \h3D2D>>, <<\h9164, \h6C97>>, <<\hE663, \h5C01>>,
    <<\h6B6B, \h51F4>>, <<\h1C6C, \h6162>>, <<\h8565, \h30D8>>, <<\hF262, \h004E>>,
    <<\h6C06, \h95ED>>, <<\h1B01, \hA57B>>, <<\h8208, \hF4C1>>, <<\hF50F, \hC457>>,
    <<\h65B0, \hD9C6>>, <<\h12B7, \hE950>>, <<\h8BBE, \hB8EA>>, <<\hFCB9, \h887C>>,
    <<\h62DD, \h1DDF>>, <<\h15DA, \h2D49>>, <<\h8CD3, \h7CF3>>, <<\hFBD4, \h4C65>>,
    <<\h4DB2, \h6158>>, <<\h3AB5, \h51CE>>, <<\hA3BC, \h0074>>, <<\hD4BB, \h30E2>>,
    <<\h4ADF, \hA541>>, <<\h3DD8, \h95D7>>, <<\hA4D1, \hC46D>>, <<\hD3D6, \hF4FB>>,
    <<\h4369, \hE96A>>, <<\h346E, \hD9FC>>, <<\hAD67, \h8846>>, <<\hDA60, \hB8D0>>,
    <<\h4404, \h2D73>>, <<\h3303, \h1DE5>>, <<\hAA0A, \h4C5F>>, <<\hDD0D, \h7CC9>>,
    <<\h5005, \h713C>>, <<\h2702, \h41AA>>, <<\hBE0B, \h1010>>, <<\hC90C, \h2086>>,
    <<\h5768, \hB525>>, <<\h206F, \h85B3>>, <<\hB966, \hD409>>, <<\hCE61, \hE49F>>,
    <<\h5EDE, \hF90E>>, <<\h29D9, \hC998>>, <<\hB0D0, \h9822>>, <<\hC7D7, \hA8B4>>,
    <<\h59B3, \h3D17>>, <<\h2EB4, \h0D81>>, <<\hB7BD, \h5C3B>>, <<\hC0BA, \h6CAD>>,
    <<\hEDB8, \h8320>>, <<\h9ABF, \hB3B6>>, <<\h03B6, \hE20C>>, <<\h74B1, \hD29A>>,
    <<\hEAD5, \h4739>>, <<\h9DD2, \h77AF>>, <<\h04DB, \h2615>>, <<\h73DC, \h1683>>,
    <<\hE363, \h0B12>>, <<\h9464, \h3B84>>, <<\h0D6D, \h6A3E>>, <<\h7A6A, \h5AA8>>,
    <<\hE40E, \hCF0B>>, <<\h9309, \hFF9D>>, <<\h0A00, \hAE27>>, <<\h7D07, \h9EB1>>,
    <<\hF00F, \h9344>>, <<\h8708, \hA3D2>>, <<\h1E01, \hF268>>, <<\h6906, \hC2FE>>,
    <<\hF762, \h575D>>, <<\h8065, \h67CB>>, <<\h196C, \h3671>>, <<\h6E6B, \h06E7>>,
    <<\hFED4, \h1B76>>, <<\h89D3, \h2BE0>>, <<\h10DA, \h7A5A>>, <<\h67DD, \h4ACC>>,
    <<\hF9B9, \hDF6F>>, <<\h8EBE, \hEFF9>>, <<\h17B7, \hBE43>>, <<\h60B0, \h8ED5>>,
    <<\hD6D6, \hA3E8>>, <<\hA1D1, \h937E>>, <<\h38D8, \hC2C4>>, <<\h4FDF, \hF252>>,
    <<\hD1BB, \h67F1>>, <<\hA6BC, \h5767>>, <<\h3FB5, \h06DD>>, <<\h48B2, \h364B>>,
    <<\hD80D, \h2BDA>>, <<\hAF0A, \h1B4C>>, <<\h3603, \h4AF6>>, <<\h4104, \h7A60>>,
    <<\hDF60, \hEFC3>>, <<\hA867, \hDF55>>, <<\h316E, \h8EEF>>, <<\h4669, \hBE79>>,
    <<\hCB61, \hB38C>>, <<\hBC66, \h831A>>, <<\h256F, \hD2A0>>, <<\h5268, \hE236>>,
    <<\hCC0C, \h7795>>, <<\hBB0B, \h4703>>, <<\h2202, \h16B9>>, <<\h5505, \h262F>>,
    <<\hC5BA, \h3BBE>>, <<\hB2BD, \h0B28>>, <<\h2BB4, \h5A92>>, <<\h5CB3, \h6A04>>,
    <<\hC2D7, \hFFA7>>, <<\hB5D0, \hCF31>>, <<\h2CD9, \h9E8B>>, <<\h5BDE, \hAE1D>>,
    <<\h9B64, \hC2B0>>, <<\hEC63, \hF226>>, <<\h756A, \hA39C>>, <<\h026D, \h930A>>,
    <<\h9C09, \h06A9>>, <<\hEB0E, \h363F>>, <<\h7207, \h6785>>, <<\h0500, \h5713>>,
    <<\h95BF, \h4A82>>, <<\hE2B8, \h7A14>>, <<\h7BB1, \h2BAE>>, <<\h0CB6, \h1B38>>,
    <<\h92D2, \h8E9B>>, <<\hE5D5, \hBE0D>>, <<\h7CDC, \hEFB7>>, <<\h0BDB, \hDF21>>,
    <<\h86D3, \hD2D4>>, <<\hF1D4, \hE242>>, <<\h68DD, \hB3F8>>, <<\h1FDA, \h836E>>,
    <<\h81BE, \h16CD>>, <<\hF6B9, \h265B>>, <<\h6FB0, \h77E1>>, <<\h18B7, \h4777>>,
    <<\h8808, \h5AE6>>, <<\hFF0F, \h6A70>>, <<\h6606, \h3BCA>>, <<\h1101, \h0B5C>>,
    <<\h8F65, \h9EFF>>, <<\hF862, \hAE69>>, <<\h616B, \hFFD3>>, <<\h166C, \hCF45>>,
    <<\hA00A, \hE278>>, <<\hD70D, \hD2EE>>, <<\h4E04, \h8354>>, <<\h3903, \hB3C2>>,
    <<\hA767, \h2661>>, <<\hD060, \h16F7>>, <<\h4969, \h474D>>, <<\h3E6E, \h77DB>>,
    <<\hAED1, \h6A4A>>, <<\hD9D6, \h5ADC>>, <<\h40DF, \h0B66>>, <<\h37D8, \h3BF0>>,
    <<\hA9BC, \hAE53>>, <<\hDEBB, \h9EC5>>, <<\h47B2, \hCF7F>>, <<\h30B5, \hFFE9>>,
    <<\hBDBD, \hF21C>>, <<\hCABA, \hC28A>>, <<\h53B3, \h9330>>, <<\h24B4, \hA3A6>>,
    <<\hBAD0, \h3605>>, <<\hCDD7, \h0693>>, <<\h54DE, \h5729>>, <<\h23D9, \h67BF>>,
    <<\hB366, \h7A2E>>, <<\hC461, \h4AB8>>, <<\h5D68, \h1B02>>, <<\h2A6F, \h2B94>>,
    <<\hB40B, \hBE37>>, <<\hC30C, \h8EA1>>, <<\h5A05, \hDF1B>>, <<\h2D02, \hEF8D>>
>>

\* chunk type codes as the four character codes getChunkType reads
IHDR == <<73, 72, 68, 82>>
PHYS == <<112, 72, 89, 115>>
IDAT == <<73, 68, 65, 84>>
IEND == <<73, 69, 78, 68>>
TEXT == <<116, 69, 88, 116>>

(* ----------------------- bytes, words and buffers ---------------------- *)

\* bit i of a ^ b, in place
XorBit(a, b, i) == (((a \div (2 ^ i)) + (b \div (2 ^ i))) % 2) * (2 ^ i)
XorNibble(a, b, i) ==
  (XorBit(a, b, i) + XorBit(a, b, i + 1))
    + (XorBit(a, b, i + 2) + XorBit(a, b, i + 3))
\* the ^ operator on 16-bit patterns
BitXor(a, b) ==
  (XorNibble(a, b, 0) + XorNibble(a, b, 4))
    + (XorNibble(a, b, 8) + XorNibble(a, b, 12))

\* the 32-bit patterns
Word == (0 .. 65535) \X (0 .. 65535)

WordXor(v, w) == <<BitXor(v[1], w[1]), BitXor(v[2], w[2])>>
\* w ^ -1
WordNot(w) == <<65535 - w[1], 65535 - w[2]>>
\* w >>> 8
WordShr8(w) == <<w[1] \div 256, (w[1] % 256) * 256 + (w[2] \div 256)>>
WordBytes(w) == <<w[1] \div 256, w[1] % 256, w[2] \div 256, w[2] % 256>>
\* the 32-bit two's complement pattern of an integer n, -2^31 <= n < 2^31
WordOfInt(n) ==
  IF n >= 0 THEN <<n \div 65536, n % 65536>>
  ELSE <<65535 - ((-(n + 1)) \div 65536), 65535 - ((-(n + 1)) % 65536)>>

\* may the code read n bytes at offset o of the view?
InBounds(view, o, n) == o >= 0 /\ o + n <= Len(view)

GetUint8(view, o) == view[o + 1]
GetUint32(view, o) ==
  <<view[o + 1] * 256 + view[o + 2], view[o + 3] * 256 + view[o + 4]>>
\* DataView.getInt32: big-endian, signed
GetInt32(view, o) ==
  (IF view[o + 1] >= 128 THEN view[o + 1] - 256 ELSE view[o + 1]) * 16777216
    + view[o + 2] * 65536 + view[o + 3] * 256 + view[o + 4]

\* ArrayBuffer.prototype.slice(begin, end): negative indices count from the
\* end, both are clamped to the buffer
SliceIndex(view, i) ==
  IF i < 0 THEN (IF Len(view) + i < 0 THEN 0 ELSE Len(view) + i)
  ELSE (IF i > Len(view) THEN Len(view) ELSE i)
Slice(view, begin, end) ==
  LET first == SliceIndex(view, begin)
      final == SliceIndex(view, end)
  IN  IF final <= first THEN <<>> ELSE SubSeq(view, first + 1, final)

(* ------------------------------- outcomes ------------------------------ *)

Return(v) == [kind |-> "return", value |-> v]
Throw(m) == [kind |-> "throw", message |-> m]
\* the call never returns
Hang == [kind |-> "hang"]
\* try { body } catch (error) { throw new Error(m) }
Rethrow(body, m) == IF body.kind = "throw" THEN Throw(m) ELSE body

(* ------------------------------ calculateCRC --------------------------- *)

RECURSIVE CrcLoop(_, _, _)
\* the for loop from the given index on; crc never leaves the 32-bit
\* patterns (the table entries and crc >>> 8 are 32 bits wide)
CrcLoop(current, index, crc) ==
  IF index >= Len(current) \/ crc \notin Word THEN crc
  ELSE CrcLoop(current, index + 1,
         WordXor(CRC_TABLE[(BitXor(crc[2] % 256, current[index + 1]) % 256) + 1],
                 WordShr8(crc)))

\* calculateCRC(current, previous = 0)
CalculateCRC(current, previous) ==
  LET crc == IF previous = <<0, 0>> THEN <<0, 0>> ELSE WordNot(previous)
  IN  WordNot(CrcLoop(current, 0, crc))

(* ------------------------------ PngHelpers ----------------------------- *)

RECURSIVE SignatureEvery(_, _, _)
\* SIGNATURE.every((byte, index) => view.getUint8(offset + index) === byte);
\* every stops at the first byte that differs, a read outside the view throws
SignatureEvery(view, offset, index) ==
  IF index >= Len(SIGNATURE) THEN Return(TRUE)
  ELSE IF ~InBounds(view, offset + index, 1) THEN Throw("RangeError")
  ELSE IF GetUint8(view, offset + index) # SIGNATURE[index + 1]
  THEN Return(FALSE)
  ELSE SignatureEvery(view, offset, index + 1)

IsPngCatchNothing(body) == body
\* isPng's catch: the error is logged and the answer is false
IsPngCatch(body) == IF body.kind = "throw" THEN Return(FALSE) ELSE body

IsPng(view, offset) == IsPngCatch(SignatureEvery(view, offset, 0))

GetChunkType(view, offset) ==
  IF InBounds(view, offset, 4)
  THEN Return(<<GetUint8(view, offset), GetUint8(view, offset + 1),
                GetUint8(view, offset + 2), GetUint8(view, offset + 3)>>)
  ELSE Throw("Failed to read chunk type")

PutChunkOnce(chunks, chunkType, entry) ==
  [t \in (DOMAIN chunks) \cup {chunkType} |->
     IF t \in DOMAIN chunks THEN chunks[t] ELSE entry]
\* chunks[chunkType] = { start, dataOffset, size }
PutChunk(chunks, chunkType, entry) ==
  [t \in (DOMAIN chunks) \cup {chunkType} |->
     IF t = chunkType THEN entry ELSE chunks[t]]

\* where the scan stands after a stored chunk whose type field starts at
\* offset
SkipChunk(offset, len) == offset + len + LENGTH_SIZE + CRC_SIZE

SkipDuplicateNoType(offset, len) == offset + len + CRC_SIZE
\* the same step for a duplicate IDAT chunk
SkipDuplicate(offset, len) == offset + len + LENGTH_SIZE + CRC_SIZE

IsEndChunkNever(chunkType) == FALSE
\* chunkType === 'IEND'
IsEndChunk(chunkType) == chunkType = IEND

RECURSIVE ScanChunks(_, _, _, _)
\* the while loop of readChunks from the given offset and table; seen holds
\* the <<offset, table>> pairs of earlier iterations: the loop is a function
\* of that pair, so meeting one again means it never ends
ScanChunks(view, offset, chunks, seen) ==
  IF ~(offset <= Len(view)) THEN Return(chunks)
  ELSE IF <<offset, chunks>> \in seen THEN Hang
  ELSE IF ~InBounds(view, offset, 4) THEN Throw("RangeError")
  ELSE
    LET start == offset
        len == GetInt32(view, offset)
        typeAt == offset + LENGTH_SIZE
        chunkType == GetChunkType(view, typeAt)
        seen2 == seen \cup {<<offset, chunks>>}
    IN  IF chunkType.kind = "throw" THEN chunkType
        ELSE IF chunkType.value = IDAT /\ IDAT \in DOMAIN chunks
          THEN ScanChunks(view, SkipDuplicate(typeAt, len), chunks, seen2)
        ELSE IF IsEndChunk(chunkType.value) THEN Return(chunks)
        ELSE ScanChunks(view, SkipChunk(typeAt, len),
               PutChunk(chunks, chunkType.value,
                 [start |-> start, dataOffset |-> typeAt + 4, size |-> len]),
               seen2)

\* the body of readChunks' try block
ReadChunksTry(view, offset) ==
  IF IsPng(view, offset) # Return(TRUE) THEN Throw("Invalid PNG signature")
  ELSE ScanChunks(view, offset + Len(SIGNATURE), <<>>, {})

ReadChunks(view, offset) ==
  Rethrow(ReadChunksTry(view, offset), "Failed to read PNG chunks")

ParsePhys(view, offset) ==
  IF InBounds(view, offset, 4) /\ InBounds(view, offset + 4, 4)
  THEN Return([ppux |-> GetUint32(view, offset),
               ppuy |-> GetUint32(view, offset + 4),
               unit |-> GetUint8(view, offset + 4)])
  ELSE Throw("Failed to parse physical dimensions")

\* the value of a missing property
Undefined == [start |-> -1, dataOffset |-> -1, size |-> -1]

\* findChunk; the message names the type asked for
FindChunk(view, type) ==
  LET chunks == ReadChunks(view, 0)
  IN  IF chunks.kind = "return"
      THEN Return(IF type \in DOMAIN chunks.value
                  THEN chunks.value[type] ELSE Undefined)
      ELSE Rethrow(chunks, "Failed to find chunk")

ToInt32Nearest(num, den) == (2 * num + den) \div (2 * den)
\* ToInt32 of the number num / den (den > 0, |num / den| < 2^31):
\* truncation toward zero
ToInt32(num, den) ==
  IF num >= 0 THEN num \div den ELSE -((-num) \div den)

\* device pixel ratios, as numerators over DprDen
Dprs == 1 .. MaxDprNum

\* DPI_96 * dpr as a fraction <<numerator, denominator>>, dpr = n / DprDen
Dpi(n) == <<DPI_96_TENTHS * n, 10 * DprDen>>

\* bytes 8..16 of the new chunk: setInt32(8, dpi), setInt32(12, dpi),
\* setInt8(16, 1)
PhysPayload(n) ==
  LET dpi == WordBytes(WordOfInt(ToInt32(Dpi(n)[1], Dpi(n)[2])))
  IN  dpi \o dpi \o <<1>>

\* the 21 bytes of pHYsData
PhysData(n) ==
  LET lengthAndType == WordBytes(<<0, 9>>) \o PHYS
      withPayload == lengthAndType \o PhysPayload(n)
      crcData == SubSeq(withPayload, 5, 17)
  IN  withPayload \o WordBytes(CalculateCRC(crcData, <<0, 0>>))

\* pHYsData for each device pixel ratio, worked out once
PhysDataOf == [n \in Dprs |-> PhysData(n)]

PhysViewOnInput == "view.buffer"
\* the buffer pHYsView is a view of: new ArrayBuffer(21)
PhysViewBuffer == "pHYsData"

\* the stores of setPhysChunk, in order, as <<byte offset, byte count>>:
\* setUint32(0), four setUint8(4 + i), setInt32(8), setInt32(12),
\* setInt8(16), setInt32(17)
PhysStoreRanges ==
  <<<<0, 4>>, <<4, 1>>, <<5, 1>>, <<6, 1>>, <<7, 1>>,
    <<8, 4>>, <<12, 4>>, <<16, 1>>, <<17, 4>>>>

\* each store with the buffer it goes to and the bytes it leaves there
PhysStores(n) ==
  LET data == PhysDataOf[n]
  IN  [k \in 1 .. Len(PhysStoreRanges) |->
         [buffer |-> PhysViewBuffer,
          at |-> PhysStoreRanges[k][1],
          bytes |-> SubSeq(data, PhysStoreRanges[k][1] + 1,
                           PhysStoreRanges[k][1] + PhysStoreRanges[k][2])]]

RECURSIVE Stored(_, _, _)
\* the bytes of view.buffer after the stores from the k-th on; a store
\* outside the buffer throws and ends them
Stored(bytes, stores, k) ==
  IF k > Len(stores) THEN bytes
  ELSE LET s == stores[k]
       IN  IF s.buffer # "view.buffer" THEN Stored(bytes, stores, k + 1)
           ELSE IF ~InBounds(bytes, s.at, Len(s.bytes)) THEN bytes
           ELSE Stored([i \in 1 .. Len(bytes) |->
                          IF i > s.at /\ i <= s.at + Len(s.bytes)
                          THEN s.bytes[i - s.at] ELSE bytes[i]],
                       stores, k + 1)

\* the stores a call of setPhysChunk makes: none before both lookups have
\* returned, all of them afterwards
SetPhysChunkStores(outcome, n) ==
  IF outcome.kind = "return" THEN PhysStores(n) ELSE <<>>

PhysRangeDataOffset(physChunk, idatChunk) ==
  IF idatChunk # Undefined
  THEN [offset |-> idatChunk.dataOffset, size |-> 0]
  ELSE IF physChunk # Undefined
  THEN [offset |-> physChunk.start, size |-> physChunk.size]
  ELSE [offset |-> DEFAULT_OFFSET, size |-> 0]
\* the insertion point setPhysChunk settles on, given both lookups
PhysRange(physChunk, idatChunk) ==
  LET afterPhys == IF physChunk # Undefined
                   THEN [offset |-> physChunk.start, size |-> physChunk.size]
                   ELSE [offset |-> DEFAULT_OFFSET, size |-> 0]
  IN  IF idatChunk # Undefined
      THEN [offset |-> idatChunk.start, size |-> 0]
      ELSE afterPhys

\* the body of setPhysChunk's try block; the Blob is its byte content
SetPhysChunkTry(view, n) ==
  LET physChunk == FindChunk(view, PHYS)
      idatChunk == FindChunk(view, IDAT)
  IN  IF physChunk.kind # "return" THEN physChunk
      ELSE IF idatChunk.kind # "return" THEN idatChunk
      ELSE LET range == PhysRange(physChunk.value, idatChunk.value)
               startBuffer == Slice(view, 0, range.offset)
               endBuffer == Slice(view, range.offset + range.size, Len(view))
           IN  Return(startBuffer \o PhysDataOf[n] \o endBuffer)

SetPhysChunk(view, n) ==
  Rethrow(SetPhysChunkTry(view, n), "Failed to set physical dimensions")

(* ----------------------------- getSvgAsImage --------------------------- *)

\* null; no Blob has these bytes
Null == <<-1>>

\* the body of getSvgAsImage's try block from the canvas on: canvas is
\* whether createCanvas gave one, blob the bytes canvas.toBlob produced (or
\* Null), n / DprDen the effective scale
GetSvgAsImageTry(canvas, blob, n) ==
  IF ~canvas THEN Return(Null)
  ELSE IF blob = Null THEN Return(Null)
  ELSE SetPhysChunk(blob, n)

\* getSvgAsImage: its catch logs the error and answers null
GetSvgAsImage(canvas, blob, n) ==
  LET body == GetSvgAsImageTry(canvas, blob, n)
  IN  IF body.kind = "throw" THEN Return(Null) ELSE body

(* ------------------------------ DesignService -------------------------- *)

\* a DesignContent: { svg, html, css, assets }
Contents ==
  [svg : {"<svg>A</svg>", "<svg>B</svg>"}, html : {"<div>A</div>"},
   css : {""}, assets : {<<>>}]

\* JSON.stringify(content), as the tokens of the text
JsonStringify(content) ==
  <<"{", "svg", ":", content.svg, "html", ":", content.html,
    "css", ":", content.css, "assets", ":",
    IF content.assets = <<>> THEN "[]" ELSE "[...]", "}">>

\* JSON.parse(contentJson) as DesignContent; a text that is no JSON throws
JsonParse(text) ==
  IF /\ Len(text) = 14
     /\ <<text[1], text[2], text[3], text[5], text[6], text[8], text[9],
          text[11], text[12], text[13], text[14]>>
          = <<"{", "svg", ":", "html", ":", "css", ":", "assets", ":",
              "[]", "}">>
  THEN Return([svg |-> text[4], html |-> text[7], css |-> text[10],
               assets |-> <<>>])
  ELSE Throw("SyntaxError")

\* { ...a, ...b }: the properties of b win
Spread(a, b) ==
  [f \in DOMAIN a \cup DOMAIN b |-> IF f \in DOMAIN b THEN b[f] ELSE a[f]]

\* a storage call of DesignService and whether its promise resolved
Request(method, id, body, resolved) ==
  [method |-> method, id |-> id, body |-> body, resolved |-> resolved]

\* what a handler did: its outcome and the storage calls it made, in order
Handled(outcome, requests) == [outcome |-> outcome, requests |-> requests]

\* a failed handler keeps its storage calls, its catch replaces the error
Caught(handled, m) == Handled(Rethrow(handled.outcome, m), handled.requests)

CreateDesignTryNoAwait(id, userId, title, content, uploaded) ==
  Handled(Return([id |-> id, userId |-> userId, title |-> title,
                  description |-> "", content |-> content, version |-> 1,
                  status |-> "DRAFT"]),
          <<Request("uploadDesign", id, JsonStringify(content),
                    uploaded.kind = "return")>>)
\* the try block of createDesign; id is what crypto.randomUUID() gave and
\* uploaded the outcome of storage.uploadDesign (createdAt and updatedAt,
\* which no caller reads back, are left out)
CreateDesignTry(id, userId, title, content, uploaded) ==
  LET design == [id |-> id, userId |-> userId, title |-> title,
                 description |-> "", content |-> content, version |-> 1,
                 status |-> "DRAFT"]
      upload == Request("uploadDesign", id, JsonStringify(content),
                        uploaded.kind = "return")
  IN  IF uploaded.kind = "throw" THEN Handled(uploaded, <<upload>>)
      ELSE Handled(Return(design), <<upload>>)

CreateDesign(id, userId, title, content, uploaded) ==
  Caught(CreateDesignTry(id, userId, title, content, uploaded),
         "Failed to create design")

\* the try block of getDesign; got is the outcome of storage.getDesign,
\* the text of the design when it resolved
GetDesignTry(designId, got) ==
  LET get == Request("getDesign", designId, <<>>, got.kind = "return")
      content == JsonParse(got.value)
  IN  IF got.kind = "throw" THEN Handled(got, <<get>>)
      ELSE IF content.kind = "throw" THEN Handled(content, <<get>>)
      ELSE Handled(Return([id |-> designId, userId |-> "mock-user",
                           title |-> "Mock Design", description |-> "",
                           content |-> content.value, version |-> 1,
                           status |-> "DRAFT"]),
                   <<get>>)

GetDesignUncaught(designId, got) == GetDesignTry(designId, got)
GetDesign(designId, got) ==
  Caught(GetDesignTry(designId, got), "Failed to retrieve design")

UpdateDesignVersionKept(currentDesign, updates) ==
  Spread(currentDesign, updates)
\* { ...currentDesign, ...updates, version: currentDesign.version + 1 }
UpdatedDesign(currentDesign, updates) ==
  Spread(Spread(currentDesign, updates),
         [version |-> currentDesign.version + 1])

\* the try block of updateDesign; uploaded is the outcome of
\* storage.uploadDesign, should it be called
UpdateDesignTry(designId, updates, got, uploaded) ==
  LET current == GetDesign(designId, got)
      updatedDesign == UpdatedDesign(current.outcome.value, updates)
      upload == Request("uploadDesign", designId,
                        JsonStringify(updatedDesign.content),
                        uploaded.kind = "return")
  IN  IF current.outcome.kind = "throw" THEN current
      ELSE IF "content" \notin DOMAIN updates
      THEN Handled(Return(updatedDesign), current.requests)
      ELSE IF uploaded.kind = "throw"
      THEN Handled(uploaded, current.requests \o <<upload>>)
      ELSE Handled(Return(updatedDesign), current.requests \o <<upload>>)

UpdateDesign(designId, updates, got, uploaded) ==
  Caught(UpdateDesignTry(designId, updates, got, uploaded),
         "Failed to update design")

\* the try block of deleteDesign; deleted is the outcome of
\* storage.deleteDesign
DeleteDesignTry(designId, deleted) ==
  LET delete == Request("deleteDesign", designId, <<>>,
                        deleted.kind = "return")
  IN  IF deleted.kind = "throw" THEN Handled(deleted, <<delete>>)
      ELSE Handled(Return("undefined"), <<delete>>)

DeleteDesign(designId, deleted) ==
  Caught(DeleteDesignTry(designId, deleted), "Failed to delete design")

(* ------------------------------ DesignAgent ---------------------------- *)

MAX_RETRIES == 3
RETRY_DELAY_MS == 1000
REQUEST_TIMEOUT_MS == 30000

\* a thrown value: class is what instanceof sees ("string" for a thrown
\* string, which is no Error)
Failure(class, message) ==
  [kind |-> "throw", class |-> class, message |-> message]

\* new AIError(type, message, details)
AIError(type, message) ==
  [kind |-> "throw", class |-> "AIError", message |-> message, type |-> type]

InstanceOfError(error) == error.class \in {"Error", "TypeError", "AIError"}

\* message.includes(part), on the messages the model API fails with
Includes(message, part) ==
  <<message, part>> \in {<<"Request timeout", "timeout">>,
                        <<"rate_limit exceeded", "rate_limit">>}

\* promptSchema.parse(prompt) succeeds; temperature is in tenths
SchemaAccepts(prompt) ==
  /\ prompt.type \in {"text", "image", "mixed"}
  /\ prompt.temperature >= 0
  /\ prompt.temperature <= 20
  /\ prompt.maxTokens > 0

ValidatePrompt(prompt) ==
  IF SchemaAccepts(prompt) THEN Return("undefined")
  ELSE AIError("VALIDATION", "Invalid prompt format")

ShouldRetryOnceMore(count, error) ==
  /\ count <= MAX_RETRIES
  /\ InstanceOfError(error)
  /\ Includes(error.message, "timeout") \/ Includes(error.message, "rate_limit")

\* the condition under which withRetry's catch calls the operation again
ShouldRetry(count, error) ==
  /\ count < MAX_RETRIES
  /\ InstanceOfError(error)
  /\ Includes(error.message, "timeout") \/ Includes(error.message, "rate_limit")

\* Math.min(RETRY_DELAY_MS * Math.pow(2, retryCount), REQUEST_TIMEOUT_MS)
RetryDelay(count) ==
  IF RETRY_DELAY_MS * (2 ^ count) < REQUEST_TIMEOUT_MS
  THEN RETRY_DELAY_MS * (2 ^ count) ELSE REQUEST_TIMEOUT_MS

\* what generateDesign makes of the response (processingTime and cost,
\* which depend on the clock and on nothing else, are left out);
\* response.choices[0].message of a response without choices throws
GenerateDesignResult(response) ==
  IF response.choices = <<>>
  THEN Failure("TypeError", "Cannot read properties of undefined")
  ELSE Return([id |-> response.id, result |-> response.choices[1],
               model |-> response.model, tokensUsed |-> response.tokens])

GenerateDesignCatchRethrows(error) == error
\* the catch of generateDesign: an AIError is thrown on as it is, anything
\* else becomes an AIError of type API
GenerateDesignCatch(error) ==
  IF error.class = "AIError" THEN error
  ELSE AIError("API", "Failed to generate design")

(* --------------------------------- Logger ------------------------------ *)

\* formatLog; data and error are <<>> when the caller gave none
FormatLog(timestamp, level, context, message, data, error) ==
  [timestamp |-> timestamp, level |-> level, context |-> context,
   message |-> message, data |-> data, error |-> error]

\* `[${entry.timestamp}] ${entry.level} [${entry.context}] ${entry.message}`
ConsoleMessage(entry) ==
  <<"[", entry.timestamp, "] ", entry.level, " [", entry.context, "] ",
    entry.message>>

\* one call of a console method
Emit(channel, args) == [channel |-> channel, args |-> args]

\* sendLog: the console calls it makes under env.NODE_ENV = environment
SendLog(entry, environment, testLogs) ==
  CASE environment = "development" ->
         <<Emit("log", <<ConsoleMessage(entry)>>)>>
           \o (IF entry.data # <<>>
               THEN <<Emit("log", <<"Data:", entry.data>>)>> ELSE <<>>)
           \o (IF entry.error # <<>>
               THEN <<Emit("error", <<"Error:", entry.error>>)>> ELSE <<>>)
    [] environment = "production" -> <<>>
    [] environment = "test" ->
         IF testLogs THEN <<Emit("log", <<ConsoleMessage(entry)>>)>>
         ELSE <<>>
    [] OTHER -> <<>>

(* ------------------------- the buffers under test ---------------------- *)

\* a chunk as it is laid out in a buffer: its type, the length its length
\* field declares, and the number of data bytes that really follow
Chunk(type, len, data) == [type |-> type, len |-> len, data |-> data]

IhdrChunk == Chunk(IHDR, 13, 13)
IendChunk == Chunk(IEND, 0, 0)

BodyChunks ==
  {Chunk(PHYS, 9, 9), IendChunk}
    \cup {Chunk(IDAT, d, d) : d \in 1 .. MaxData}
    \cup {Chunk(TEXT, MaxData, MaxData)}

RECURSIVE SeqsUpTo(_, _)
SeqsUpTo(S, n) ==
  IF n = 0 THEN {<<>>}
  ELSE LET shorter == SeqsUpTo(S, n - 1)
       IN  shorter \cup {Append(q, e) : q \in {r \in shorter : Len(r) = n - 1}, e \in S}

\* IHDR, up to n further chunks, and the closing IEND or none
Layouts(n) ==
  {<<IhdrChunk>> \o body \o closing :
     body \in SeqsUpTo(BodyChunks, n), closing \in {<<>>, <<IendChunk>>}}

\* declared lengths that disagree with the data that follows
LyingLengths == {-12, -100, 100}

\* an old pHYs payload: 3780 pixels per metre both ways, unit 1
OldPhysPayload == <<0, 0, 14, 196, 0, 0, 14, 196, 1>>

ChunkBytes(c, k) ==
  WordBytes(WordOfInt(c.len)) \o c.type
    \o (IF c.type = PHYS /\ c.data = 9 THEN OldPhysPayload
        ELSE [i \in 1 .. c.data |-> 16 * k + i])
    \o <<200 + k, 100 + k, 50 + k, k>>

RECURSIVE LayoutBytes(_, _)
\* the bytes of chunks k .. Len(layout) of the layout
LayoutBytes(layout, k) ==
  IF k > Len(layout) THEN <<>>
  ELSE ChunkBytes(layout[k], k) \o LayoutBytes(layout, k + 1)

RECURSIVE StartOf(_, _)
\* the offset at which chunk k of the layout starts
StartOf(layout, k) ==
  IF k = 1 THEN Len(SIGNATURE)
  ELSE StartOf(layout, k - 1) + 12 + layout[k - 1].data

PngBytes(layout) == SIGNATURE \o LayoutBytes(layout, 1)

\* the ways a buffer is derived from a layout: bytes appended to it, a
\* signature byte changed, only its first bytes kept, its last bytes cut
\* off, its last chunk declaring another length
Variants ==
  [kind : {"trail"}, arg : 0 .. MaxTrail]
    \cup [kind : {"signature"}, arg : {1, Len(SIGNATURE)}]
    \cup [kind : {"keep"}, arg : {4}]
    \cup [kind : {"cut"}, arg : {1, 5}]
    \cup [kind : {"lie"}, arg : LyingLengths]

\* the layouts each variant is applied to: the longest ones are left as
\* they are, and nothing behind a bad signature is ever read
LayoutsFor(v) ==
  IF v = [kind |-> "trail", arg |-> 0] THEN Layouts(MaxChunks)
  ELSE IF v.kind \in {"signature", "keep"} THEN Layouts(0)
  ELSE Layouts(MaxChunks - 1)

\* the layout a variant really puts into the buffer
Damaged(layout, variant) ==
  IF variant.kind = "lie"
  THEN [layout EXCEPT ![Len(layout)].len = variant.arg]
  ELSE layout

Buffer(layout, variant) ==
  LET png == PngBytes(Damaged(layout, variant))
  IN  CASE variant.kind = "trail" -> png \o [i \in 1 .. variant.arg |-> 255]
        [] variant.kind = "signature" ->
             [png EXCEPT ![variant.arg] = (png[variant.arg] + 1) % 256]
        [] variant.kind = "keep" -> SubSeq(png, 1, variant.arg)
        [] variant.kind = "cut" -> SubSeq(png, 1, Len(png) - variant.arg)
        [] OTHER -> png

(* ------------------------------ the state ------------------------------ *)

VARIABLES
  layout,   \* the chunks the input buffer was built from
  variant,  \* how the buffer was derived from them
  input,    \* the bytes of the caller's buffer
  view,     \* the bytes of the DataView the next call is made on
  written,  \* <<n>> once view is the Blob of setPhysChunk(input, n / DprDen)
  pc,       \* "ready" before a call, "returned" after it
  call,     \* the call made: its name and argument
  ret,      \* its outcome
  nextId,   \* how many design ids crypto.randomUUID() has handed out
  versions, \* per design id, the version createDesign or updateDesign last
            \* returned for it (0: none yet)
  requests, \* the storage calls of the last DesignService call, in order
  retryCount, \* withRetry's retryCount in the invocation now running
  attempts, \* the outcomes of operation() in this generateDesign, in order
  retries,  \* metrics.retries of the DesignAgent
  delays,   \* the delays withRetry has waited for, in milliseconds
  nodeEnv,  \* env.NODE_ENV
  enableTestLogs, \* env.ENABLE_TEST_LOGS
  console,  \* what the last Logger call wrote to the console, in order
  maxSizePromise, \* the module's cached promise of getBrowserCanvasMaxSize
  timeout,  \* the timeout the running detection was started with
  detections, \* how often detectCanvasSize has been called
  sizeCalls, \* per call of getBrowserCanvasMaxSize, where it stands and how
            \* its promise has settled
  images,   \* the images uploadImages was called with
  uploads,  \* per image, where its callback stands: its retries, the
            \* outcomes of its attempts and how its promise has settled
  uploadResult, \* the promise uploadImages returned
  postRequest, \* the request POST /api/activateAgent is working on
  routePc,  \* the await the handler stands at
  routeTrace, \* the calls the handler has awaited for this request, in
            \* order, each with how it ended
  postResponse, \* the response to the request
  served,   \* how many requests have been answered
  healthChecks, \* healthStatus.checks of the Monitoring singleton: per
            \* service that was reported, its latest status
  healthOverall, \* healthStatus.status
  healthGets, \* per GET /api/health, where it stands and what it answered
  thrown,   \* the value ErrorHandler is handed
  errorLog  \* ErrorLogging.errors

pngVars == <<layout, variant, input, view, written>>
designVars == <<nextId, versions, requests>>
agentVars == <<retryCount, attempts, retries, delays>>
logVars == <<nodeEnv, enableTestLogs, console>>
canvasVars == <<maxSizePromise, timeout, detections, sizeCalls>>
\* the state of the modules modelled after the first four
uploadVars == <<images, uploads, uploadResult>>
routeVars == <<postRequest, routePc, routeTrace, postResponse, served>>
healthVars == <<healthChecks, healthOverall, healthGets>>
errorVars == <<thrown, errorLog>>
otherVars == <<canvasVars, uploadVars, routeVars, healthVars, errorVars>>
vars == <<pngVars, pc, call, ret, designVars, agentVars, logVars, otherVars>>

NoCall == [op |-> "none", arg |-> 0]

DesignIds == 1 .. MaxDesigns

\* no PNG buffer is under test
NoPng ==
  /\ layout = <<>>
  /\ variant = [kind |-> "trail", arg |-> 0]
  /\ input = <<>>
  /\ view = <<>>
  /\ written = <<>>

\* a DesignService nobody has called
NoDesigns ==
  /\ nextId = 0
  /\ versions = [id \in DesignIds |-> 0]
  /\ requests = <<>>

\* a DesignAgent as its constructor leaves it
NoAgent ==
  /\ retryCount = 0
  /\ attempts = <<>>
  /\ retries = 0
  /\ delays = <<>>

\* a Logger that is not looked at
NoLogger ==
  /\ nodeEnv = "test"
  /\ enableTestLogs = FALSE
  /\ console = <<>>

\* let maxSizePromise = null
NoPromise == [kind |-> "null"]
\* a promise that has not settled
Pending == [kind |-> "pending"]

SizeCallers == 1 .. MaxSizeCalls

\* a call of getBrowserCanvasMaxSize that has not been made
NotCalled == [pc |-> "idle", ret |-> Pending]

\* the module dimensions.ts as loaded
NoCanvas ==
  /\ maxSizePromise = NoPromise
  /\ timeout = 0
  /\ detections = 0
  /\ sizeCalls = [c \in SizeCallers |-> NotCalled]

ImageSlots == 1 .. MaxImages

\* a callback of images.map that has not run
NotMapped == [pc |-> "idle", retries |-> 0, log |-> <<>>, ret |-> Pending]

\* uploadImages has not been called
NoUploads ==
  /\ images = <<>>
  /\ uploads = [i \in ImageSlots |-> NotMapped]
  /\ uploadResult = NoPromise

\* no request has arrived
NoRequest == [apiKey |-> "", body |-> [json |-> FALSE]]
NoResponse == [status |-> 0, body |-> "none"]

\* the route before its first request
NoPosts ==
  /\ postRequest = NoRequest
  /\ routePc = "idle"
  /\ routeTrace = <<>>
  /\ postResponse = NoResponse
  /\ served = 0

HealthGetters == 1 .. MaxHealthGets

\* a GET /api/health that has not arrived
NotArrived == [pc |-> "idle", status |-> 0, unhealthy |-> FALSE]

\* the Monitoring singleton as its constructor leaves it
NoHealth ==
  /\ healthChecks = <<>>
  /\ healthOverall = "healthy"
  /\ healthGets = [r \in HealthGetters |-> NotArrived]

\* no error was thrown or logged
NoErrors ==
  /\ thrown = [class |-> "none"]
  /\ errorLog = <<>>

NoOthers == NoCanvas /\ NoUploads /\ NoPosts /\ NoHealth /\ NoErrors

Init ==
  /\ variant \in Variants
  /\ layout \in LayoutsFor(variant)
  /\ input = Buffer(layout, variant)
  /\ view = input
  /\ written = <<>>
  /\ pc = "ready"
  /\ call = NoCall
  /\ ret = Return(0)
  /\ NoDesigns
  /\ NoAgent
  /\ NoOthers
  /\ NoLogger

\* a call returns: stores is what it has written through its DataViews
\* (isPng, readChunks, findChunk, parsePhys and calculateCRC only read)
Returned(op, arg, outcome, stores) ==
  /\ pc = "ready"
  /\ pc' = "returned"
  /\ call' = [op |-> op, arg |-> arg]
  /\ ret' = outcome
  /\ view' = Stored(view, stores, 1)
  /\ UNCHANGED <<layout, variant, input, written>>
  /\ UNCHANGED <<designVars, agentVars, logVars>>
  /\ UNCHANGED otherVars

CallIsPng ==
  /\ written = <<>>
  /\ \E offset \in {-1, 0, 1} :
       Returned("isPng", offset, IsPng(view, offset), <<>>)

CallReadChunks == Returned("readChunks", 0, ReadChunks(view, 0), <<>>)

CallFindChunk ==
  /\ written = <<>>
  /\ \E type \in {PHYS, IDAT, IEND} :
       Returned("findChunk", type, FindChunk(view, type), <<>>)

\* where the chunk written by setPhysChunk starts in the Blob made from the
\* input: at the offset the code settled on, or at the end of a shorter input
NewChunkAt ==
  SliceIndex(input,
    PhysRange(FindChunk(input, PHYS).value, FindChunk(input, IDAT).value).offset)

\* the data offsets readChunks reports, the data offset of the chunk that
\* was written, and one offset near the end
ParseOffsets ==
  LET chunks == ReadChunks(view, 0)
  IN  (IF chunks.kind = "return"
       THEN {chunks.value[t].dataOffset : t \in DOMAIN chunks.value} ELSE {})
        \cup (IF written # <<>> THEN {NewChunkAt + 8} ELSE {})
        \cup {Len(view) - 4}

CallParsePhys ==
  \E offset \in ParseOffsets :
    Returned("parsePhys", offset, ParsePhys(view, offset), <<>>)

CallSetPhysChunk ==
  /\ written = <<>>
  /\ \E n \in Dprs :
       LET outcome == SetPhysChunk(view, n)
       IN  Returned("setPhysChunk", n, outcome, SetPhysChunkStores(outcome, n))

\* calculateCRC over the type and data bytes of chunk k of the buffer
CrcInput(k) ==
  Slice(input, StartOf(layout, k) + 4, StartOf(layout, k) + 8 + layout[k].data)

CallCalculateCRC ==
  /\ variant = [kind |-> "trail", arg |-> 0]
  /\ written = <<>>
  /\ \E k \in 1 .. Len(layout) :
       Returned("calculateCRC", k,
                Return(CalculateCRC(CrcInput(k), <<0, 0>>)), <<>>)

\* getSvgAsImage where the canvas gives the input buffer as its Blob
CallGetSvgAsImage ==
  /\ written = <<>>
  /\ \E canvas \in BOOLEAN, blob \in {view, Null}, n \in Dprs :
       LET outcome == GetSvgAsImage(canvas, blob, n)
       IN  Returned("getSvgAsImage",
                    [canvas |-> canvas, blob |-> blob, scale |-> n],
                    outcome,
                    IF outcome = Return(Null) THEN <<>>
                    ELSE SetPhysChunkStores(outcome, n))

\* new DataView(await blob.arrayBuffer()) on the Blob setPhysChunk returned
LoadBlob ==
  /\ pc = "returned"
  /\ call.op = "setPhysChunk"
  /\ ret.kind = "return"
  /\ view' = ret.value
  /\ written' = <<call.arg>>
  /\ pc' = "ready"
  /\ UNCHANGED <<layout, variant, input, call, ret>>
  /\ UNCHANGED <<designVars, agentVars, logVars>>
  /\ UNCHANGED otherVars

Next ==
  \/ CallIsPng
  \/ CallReadChunks
  \/ CallFindChunk
  \/ CallParsePhys
  \/ CallSetPhysChunk
  \/ CallCalculateCRC
  \/ CallGetSvgAsImage
  \/ LoadBlob

Spec == Init /\ [][Next]_vars

(* ------------------------- DesignService at work ----------------------- *)

Users == {"test-user", "user-2"}
Titles == {"Test Design"}

\* the Partial<Design> values updateDesign is called with
Updates ==
  <<[title |-> "Updated Title"],
    [content |-> [svg |-> "<svg>B</svg>", html |-> "<div>A</div>",
                  css |-> "", assets |-> <<>>]],
    [title |-> "Updated Title",
     content |-> [svg |-> "<svg>A</svg>", html |-> "<div>A</div>",
                  css |-> "", assets |-> <<>>]],
    [version |-> 7]>>

\* how a storage call can end
StorageError == Throw("Storage error")
Settled == {Return("undefined"), StorageError}
\* storage.getDesign: rejected, or resolved with the text of some content
\* or with a text that is no JSON
Fetched ==
  {StorageError, Return(<<"{", "svg">>)}
    \cup {Return(JsonStringify(content)) : content \in Contents}

\* a DesignService call returns
Served(op, arg, handled) ==
  /\ pc' = "returned"
  /\ call' = [op |-> op, arg |-> arg]
  /\ ret' = handled.outcome
  /\ requests' = handled.requests
  /\ UNCHANGED <<pngVars, agentVars, logVars>>
  /\ UNCHANGED otherVars

CallCreateDesign ==
  /\ nextId < MaxDesigns
  /\ \E userId \in Users, title \in Titles, content \in Contents,
        uploaded \in Settled :
       LET id == nextId + 1
           handled == CreateDesign(id, userId, title, content, uploaded)
       IN  /\ Served("createDesign",
                     [id |-> id, userId |-> userId, title |-> title,
                      content |-> content], handled)
           /\ nextId' = id
           /\ versions' = IF handled.outcome.kind = "return"
                          THEN [versions EXCEPT ![id] = 1] ELSE versions

CallGetDesign ==
  \E designId \in DesignIds, got \in Fetched :
    /\ Served("getDesign", [id |-> designId], GetDesign(designId, got))
    /\ UNCHANGED <<nextId, versions>>

CallUpdateDesign ==
  \E designId \in DesignIds, k \in 1 .. Len(Updates), got \in Fetched,
     uploaded \in Settled :
    LET handled == UpdateDesign(designId, Updates[k], got, uploaded)
    IN  /\ Served("updateDesign", [id |-> designId, updates |-> Updates[k]],
                  handled)
        /\ versions' = IF handled.outcome.kind = "return"
                       THEN [versions EXCEPT
                               ![designId] = handled.outcome.value.version]
                       ELSE versions
        /\ UNCHANGED nextId

CallDeleteDesign ==
  \E designId \in DesignIds, deleted \in Settled :
    /\ Served("deleteDesign", [id |-> designId],
              DeleteDesign(designId, deleted))
    /\ versions' = IF deleted.kind = "return"
                   THEN [versions EXCEPT ![designId] = 0] ELSE versions
    /\ UNCHANGED nextId

DesignInit ==
  /\ NoPng
  /\ pc = "ready"
  /\ call = NoCall
  /\ ret = Return(0)
  /\ NoDesigns
  /\ NoAgent
  /\ NoOthers
  /\ NoLogger

DesignNext ==
  \/ CallCreateDesign
  \/ CallGetDesign
  \/ CallUpdateDesign
  \/ CallDeleteDesign

DesignSpec == DesignInit /\ [][DesignNext]_vars

(* -------------------------- DesignAgent at work ------------------------ *)

Prompts ==
  [type : {"text", "image", "video"}, temperature : {7, 21},
   maxTokens : {0, 1000}]

\* how openai.chat.completions.create can end
Completions ==
  {Return([id |-> "mock-response-id", model |-> "gpt-4", tokens |-> 100,
           choices |-> choices]) :
     choices \in {<<>>, <<"<div>Mock generated design</div>">>}}
    \cup {Failure("Error", "API Error"), Failure("Error", "Request timeout"),
          Failure("Error", "rate_limit exceeded"),
          Failure("string", "Request timeout"),
          AIError("API", "Model overloaded")}

\* generateDesign up to its await of withRetry
CallGenerateDesign ==
  /\ pc = "ready"
  /\ \E prompt \in Prompts :
       /\ call' = [op |-> "generateDesign", arg |-> prompt]
       /\ IF ValidatePrompt(prompt).kind = "throw"
          THEN /\ pc' = "returned"
               /\ ret' = GenerateDesignCatch(ValidatePrompt(prompt))
          ELSE /\ pc' = "calling"
               /\ ret' = ret
  /\ UNCHANGED <<pngVars, designVars, agentVars, logVars>>
  /\ UNCHANGED otherVars

\* operation() settles: withRetry returns its value, waits before another
\* call, or throws its error, and generateDesign goes on from there
OperationSettles ==
  /\ pc = "calling"
  /\ \E settled \in Completions :
       /\ attempts' = Append(attempts, settled)
       /\ IF settled.kind = "return"
          THEN /\ pc' = "returned"
               /\ ret' = LET result == GenerateDesignResult(settled.value)
                         IN  IF result.kind = "throw"
                             THEN GenerateDesignCatch(result) ELSE result
               /\ UNCHANGED <<retries, delays>>
          ELSE IF ShouldRetry(retryCount, settled)
          THEN /\ pc' = "sleeping"
               /\ retries' = retries + 1
               /\ delays' = Append(delays, RetryDelay(retryCount))
               /\ ret' = ret
          ELSE /\ pc' = "returned"
               /\ ret' = GenerateDesignCatch(settled)
               /\ UNCHANGED <<retries, delays>>
  /\ UNCHANGED <<pngVars, designVars, logVars, call, retryCount>>
  /\ UNCHANGED otherVars

\* the timer of withRetry fires: this.withRetry(operation, retryCount + 1)
TimerFires ==
  /\ pc = "sleeping"
  /\ pc' = "calling"
  /\ retryCount' = retryCount + 1
  /\ UNCHANGED <<pngVars, designVars, logVars, call, ret>>
  /\ UNCHANGED otherVars
  /\ UNCHANGED <<attempts, retries, delays>>

AgentInit ==
  /\ NoPng
  /\ pc = "ready"
  /\ call = NoCall
  /\ ret = Pending
  /\ NoDesigns
  /\ NoAgent
  /\ NoOthers
  /\ NoLogger

AgentNext ==
  \/ CallGenerateDesign
  \/ OperationSettles
  \/ TimerFires

AgentSpec == AgentInit /\ [][AgentNext]_vars

\* the same with the promises of the run settling: the model API answers or
\* fails every request, and the timer setTimeout has set fires (both steps
\* change pc)
AgentLiveSpec ==
  AgentInit /\ [][AgentNext]_vars
    /\ WF_pc(OperationSettles) /\ WF_pc(TimerFires)

(* ----------------------------- Logger at work -------------------------- *)

Context == "TestContext"
Timestamp == "2026-01-01T00:00:00.000Z"
LogMessages == {"Test message", "Test info message", "Test error message"}
LogData == {<<>>, <<"test">>}
LogErrors == {<<>>, <<"Test error">>}

\* debug, info, warn, error: this.sendLog(this.formatLog(...))
Logged(op, level, message, data, error) ==
  /\ pc' = "returned"
  /\ call' = [op |-> op,
              arg |-> [level |-> level, message |-> message, data |-> data,
                       error |-> error]]
  /\ ret' = Return("undefined")
  /\ console' = SendLog(FormatLog(Timestamp, level, Context, message, data,
                                  error),
                        nodeEnv, enableTestLogs)
  /\ UNCHANGED <<pngVars, designVars, agentVars, nodeEnv, enableTestLogs>>
  /\ UNCHANGED otherVars

CallDebug ==
  \E message \in LogMessages, data \in LogData :
    Logged("debug", "DEBUG", message, data, <<>>)

CallInfo ==
  \E message \in LogMessages, data \in LogData :
    Logged("info", "INFO", message, data, <<>>)

CallWarn ==
  \E message \in LogMessages, data \in LogData :
    Logged("warn", "WARN", message, data, <<>>)

CallError ==
  \E message \in LogMessages, error \in LogErrors, data \in LogData :
    Logged("error", "ERROR", message, data, error)

LoggerInit ==
  /\ NoPng
  /\ pc = "ready"
  /\ call = NoCall
  /\ ret = Return(0)
  /\ NoDesigns
  /\ NoAgent
  /\ NoOthers
  /\ nodeEnv \in {"development", "production", "test"}
  /\ enableTestLogs \in BOOLEAN
  /\ console = <<>>

LoggerNext ==
  \/ CallDebug
  \/ CallInfo
  \/ CallWarn
  \/ CallError

LoggerSpec == LoggerInit /\ [][LoggerNext]_vars

(* ---------------------- getBrowserCanvasMaxSize ------------------------ *)

\* DEFAULT_OPTIONS of dimensions.ts
DEFAULT_TIMEOUT == 5000
FALLBACK_SIDE == 16384
DEFAULT_OPTIONS ==
  [timeout |-> DEFAULT_TIMEOUT,
   useWebGL |-> TRUE,
   fallback |-> [maxWidth |-> FALLBACK_SIDE, maxHeight |-> FALLBACK_SIDE,
                 maxArea |-> FALLBACK_SIDE * FALLBACK_SIDE]]

\* reject(new Error(`Canvas size detection timed out after ${timeout}ms`))
TimedOut(ms) == Throw(<<"Canvas size detection timed out after ", ms, "ms">>)

\* detectMaxWidth and detectMaxHeight: the measured side, or the fallback
\* when canvasSize rejects
DetectMaxSide(measured, side) ==
  IF measured.kind = "return" THEN measured.value
  ELSE DEFAULT_OPTIONS.fallback[side]

\* detectMaxArea: result.width * result.height, or the fallback area
DetectMaxArea(measured) ==
  IF measured.kind = "return" THEN measured.value * measured.value
  ELSE DEFAULT_OPTIONS.fallback.maxArea

\* what Promise.all(...).then resolves the detection with
Detected(width, height, area) ==
  Return([maxWidth |-> DetectMaxSide(width, "maxWidth"),
          maxHeight |-> DetectMaxSide(height, "maxHeight"),
          maxArea |-> DetectMaxArea(area)])

\* the first caller's  const result = await maxSizePromise  inside try, with
\* the catch block that returns the fallback
AwaitedInTry(promise) ==
  IF promise.kind = "return" THEN promise
  ELSE Return(DEFAULT_OPTIONS.fallback)

\* return maxSizePromise  of an async function: the call's promise follows
\* the cached promise, whose rejection is no exception inside the try block
ReturnedPromise(promise) == promise

(* ------------------- getBrowserCanvasMaxSize at work ------------------- *)

\* the options callers pass: none, or a short timeout
SizeOptions == {<<>>, [timeout |-> 100]}

\* what canvasSize answers to one measurement
Measurements == {Return(4096), Throw("canvas-size failed")}

\* getBrowserCanvasMaxSize(options) up to its first await or its return
CallGetBrowserCanvasMaxSize(c) ==
  /\ sizeCalls[c].pc = "idle"
  /\ IF maxSizePromise # NoPromise
     THEN /\ sizeCalls' = [sizeCalls EXCEPT ![c].pc = "returned cached"]
          /\ UNCHANGED <<maxSizePromise, timeout, detections>>
     ELSE \E options \in SizeOptions :
            /\ maxSizePromise' = Pending
            /\ timeout' = Spread(DEFAULT_OPTIONS, options).timeout
            /\ detections' = detections + 1
            /\ sizeCalls' = [sizeCalls EXCEPT ![c].pc = "awaiting"]
  /\ UNCHANGED <<pngVars, pc, call, ret, designVars, agentVars, logVars>>
  /\ UNCHANGED <<uploadVars, routeVars, healthVars, errorVars>>

\* the three measurements are in before the timer fires
DetectionCompletes ==
  /\ maxSizePromise = Pending
  /\ \E width \in Measurements, height \in Measurements, area \in Measurements :
       maxSizePromise' = Detected(width, height, area)
  /\ UNCHANGED <<timeout, detections, sizeCalls>>
  /\ UNCHANGED <<pngVars, pc, call, ret, designVars, agentVars, logVars>>
  /\ UNCHANGED <<uploadVars, routeVars, healthVars, errorVars>>

\* the timer of detectCanvasSize fires first
DetectionTimesOut ==
  /\ maxSizePromise = Pending
  /\ maxSizePromise' = TimedOut(timeout)
  /\ UNCHANGED <<timeout, detections, sizeCalls>>
  /\ UNCHANGED <<pngVars, pc, call, ret, designVars, agentVars, logVars>>
  /\ UNCHANGED <<uploadVars, routeVars, healthVars, errorVars>>

\* a call goes on once the cached promise has settled
SizeCallSettles(c) ==
  /\ maxSizePromise.kind \in {"return", "throw"}
  /\ \/ /\ sizeCalls[c].pc = "awaiting"
        /\ sizeCalls' = [sizeCalls EXCEPT
             ![c] = [pc |-> "settled", ret |-> AwaitedInTry(maxSizePromise)]]
     \/ /\ sizeCalls[c].pc = "returned cached"
        /\ sizeCalls' = [sizeCalls EXCEPT
             ![c] = [pc |-> "settled", ret |-> ReturnedPromise(maxSizePromise)]]
  /\ UNCHANGED <<maxSizePromise, timeout, detections>>
  /\ UNCHANGED <<pngVars, pc, call, ret, designVars, agentVars, logVars>>
  /\ UNCHANGED <<uploadVars, routeVars, healthVars, errorVars>>

Idle ==
  /\ NoPng
  /\ pc = "ready"
  /\ call = NoCall
  /\ ret = Return(0)
  /\ NoDesigns
  /\ NoAgent
  /\ NoLogger

CanvasInit == Idle /\ NoOthers

CanvasNext ==
  \/ \E c \in SizeCallers : CallGetBrowserCanvasMaxSize(c)
  \/ DetectionCompletes
  \/ DetectionTimesOut
  \/ \E c \in SizeCallers : SizeCallSettles(c)

CanvasSpec == CanvasInit /\ [][CanvasNext]_vars

(* ------------------------------ uploadImages --------------------------- *)

\* MAX_RETRIES of route.ts
UPLOAD_MAX_RETRIES == 3

\* sanitizeHtml of lib/security: it returns a string made from its argument
SanitizeHtml(text) == <<"sanitized", text>>

\* the ImageInfo both return statements of the callback build
ImageInfo(url, image, defaultAlt) ==
  [url |-> url,
   alt |-> SanitizeHtml(IF image.tags # "" THEN image.tags ELSE defaultAlt),
   width |-> image.imageWidth,
   format |-> image.type]

\* while (retries < MAX_RETRIES)
UploadLoopGoesOn(count) == count < UPLOAD_MAX_RETRIES

UploadGivesUpNever(count) == FALSE
\* if (retries === MAX_RETRIES)
UploadGivesUp(count) == count = UPLOAD_MAX_RETRIES

\* the callback at the head of its loop: another attempt, or the throw
\* behind the loop
AtLoopHead(upload) ==
  IF UploadLoopGoesOn(upload.retries) THEN [upload EXCEPT !.pc = "trying"]
  ELSE [upload EXCEPT !.pc = "done",
                      !.ret = Throw("Failed to upload image after retries")]

\* the callback after an attempt that ended with outcome
AfterAttempt(upload, outcome, image, defaultAlt) ==
  LET logged == [upload EXCEPT !.log = Append(@, outcome)]
      count == upload.retries + 1
  IN  IF outcome.kind = "return"
      THEN [logged EXCEPT !.pc = "done",
              !.ret = Return(ImageInfo(outcome.value, image, defaultAlt))]
      ELSE IF UploadGivesUp(count)
      THEN [logged EXCEPT !.pc = "done", !.retries = count,
              !.ret = Return(ImageInfo(image.webformatURL, image, defaultAlt))]
      ELSE [logged EXCEPT !.pc = "sleeping", !.retries = count]

\* Promise.all over the callbacks' promises, none of them pending: the
\* values in the order of the promises, or the first rejection
PromiseAll(promises) ==
  IF \E i \in DOMAIN promises : promises[i].kind = "throw"
  THEN promises[CHOOSE i \in DOMAIN promises : promises[i].kind = "throw"]
  ELSE Return([i \in DOMAIN promises |-> promises[i].value])

(* --------------------------- uploadImages at work ---------------------- *)

\* hits of the image search
Hits ==
  {[webformatURL |-> "https://pixabay.com/get/a.png", tags |-> "cat",
    imageWidth |-> 640, type |-> "photo"],
   [webformatURL |-> "https://pixabay.com/get/b.png", tags |-> "",
    imageWidth |-> 320, type |-> "vector"]}

ImageLists == SeqsUpTo(Hits, MaxImages)

DefaultAlt == "logo"

\* how one download-and-upload attempt can end
AttemptOutcomes ==
  {Return("https://imagedelivery.net/h/1/public"),
   Throw("Invalid image data received"), Throw("Network Error")}

\* uploadImages(images, defaultAlt): every callback runs up to its first await
CallUploadImages ==
  /\ uploadResult = NoPromise
  /\ \E list \in ImageLists :
       /\ images' = list
       /\ uploads' = [i \in ImageSlots |->
                        IF i <= Len(list) THEN AtLoopHead(NotMapped)
                        ELSE NotMapped]
       /\ uploadResult' = IF list = <<>> THEN Return(<<>>) ELSE Pending
  /\ UNCHANGED <<pngVars, pc, call, ret, designVars, agentVars, logVars>>
  /\ UNCHANGED <<canvasVars, routeVars, healthVars, errorVars>>

\* the download or the upload of image i fails, or both succeed
AttemptSettles(i) ==
  /\ uploads[i].pc = "trying"
  /\ \E outcome \in AttemptOutcomes :
       uploads' = [uploads EXCEPT
         ![i] = AfterAttempt(@, outcome, images[i], DefaultAlt)]
  /\ UNCHANGED <<images, uploadResult>>
  /\ UNCHANGED <<pngVars, pc, call, ret, designVars, agentVars, logVars>>
  /\ UNCHANGED <<canvasVars, routeVars, healthVars, errorVars>>

\* the timer set after a failed attempt fires
UploadTimerFires(i) ==
  /\ uploads[i].pc = "sleeping"
  /\ uploads' = [uploads EXCEPT ![i] = AtLoopHead(@)]
  /\ UNCHANGED <<images, uploadResult>>
  /\ UNCHANGED <<pngVars, pc, call, ret, designVars, agentVars, logVars>>
  /\ UNCHANGED <<canvasVars, routeVars, healthVars, errorVars>>

\* the promise of Promise.all settles: every callback has returned, or one
\* has thrown
PromiseAllSettles ==
  /\ uploadResult = Pending
  /\ LET promises == [i \in 1 .. Len(images) |-> uploads[i].ret]
     IN  /\ \/ \A i \in 1 .. Len(images) : promises[i] # Pending
            \/ \E i \in 1 .. Len(images) : promises[i].kind = "throw"
         /\ uploadResult' =
              PromiseAll([i \in {j \in 1 .. Len(images) : promises[j] # Pending}
                            |-> promises[i]])
  /\ UNCHANGED <<images, uploads>>
  /\ UNCHANGED <<pngVars, pc, call, ret, designVars, agentVars, logVars>>
  /\ UNCHANGED <<canvasVars, routeVars, healthVars, errorVars>>

UploadInit == Idle /\ NoOthers

UploadNext ==
  \/ CallUploadImages
  \/ \E i \in ImageSlots : AttemptSettles(i)
  \/ \E i \in ImageSlots : UploadTimerFires(i)
  \/ PromiseAllSettles

UploadSpec == UploadInit /\ [][UploadNext]_vars

(* ------------------------- POST /api/activateAgent --------------------- *)

\* NextResponse.json(body, { status })
Json(status, body) == [status |-> status, body |-> body]

\* handleError
HandleError(error) ==
  IF error.class = "ZodError" THEN Json(400, "Invalid request data")
  ELSE IF error.class = "AxiosError"
  THEN Json(IF error.status # 0 THEN error.status ELSE 500,
            "External service error")
  ELSE Json(500, "Internal server error")

\* requestSchema.parse(body) succeeds: image is a URL
RequestSchemaAccepts(body) == body.image \in {"https://example.com/w.png"}

\* an awaited call and how it ended
Awaited(op, outcome) == [op |-> op, outcome |-> outcome]

CachedResponseIgnored(cachedResponse) == FALSE
\* if (cachedResponse)
CachedResponseFound(cachedResponse) == cachedResponse # ""

(* ---------------------- POST /api/activateAgent at work ---------------- *)

PostRequests ==
  [apiKey : {"", "key-1"},
   body : {[json |-> FALSE], [json |-> TRUE, image |-> "https://example.com/w.png"],
           [json |-> TRUE, image |-> "wireframe"]}]

UnexpectedError == Failure("Error", "unexpected")

\* the handler leaves with a response
Responds(awaited, response) ==
  /\ routeTrace' = Append(routeTrace, awaited)
  /\ postResponse' = response
  /\ routePc' = "responded"
  /\ served' = served + 1
  /\ UNCHANGED postRequest

\* the handler goes on to its next await
GoesOn(awaited, next) ==
  /\ routeTrace' = Append(routeTrace, awaited)
  /\ routePc' = next
  /\ UNCHANGED <<postRequest, postResponse, served>>

\* what an awaited call of the handler leads to: the catch block when it
\* throws, and otherwise the response or next await that belongs to its value
Settles(op, outcome, response, next) ==
  IF outcome.kind = "throw" THEN Responds(Awaited(op, outcome), HandleError(outcome))
  ELSE IF next = "responded" THEN Responds(Awaited(op, outcome), response)
  ELSE GoesOn(Awaited(op, outcome), next)

RouteFrame ==
  /\ UNCHANGED <<pngVars, pc, call, ret, designVars, agentVars, logVars>>
  /\ UNCHANGED <<canvasVars, uploadVars, healthVars, errorVars>>

\* a request arrives: POST runs up to  await rateLimit(request)
PostArrives ==
  /\ routePc \in {"idle", "responded"}
  /\ served < MaxRequests
  /\ postRequest' \in PostRequests
  /\ routePc' = "rateLimit"
  /\ routeTrace' = <<>>
  /\ postResponse' = NoResponse
  /\ UNCHANGED served
  /\ RouteFrame

RateLimitSettles ==
  /\ routePc = "rateLimit"
  /\ \E outcome \in {Return(TRUE), Return(FALSE), UnexpectedError} :
       IF outcome = Return(FALSE)
       THEN Settles("rateLimit", outcome, Json(429, "Too many requests"), "responded")
       ELSE Settles("rateLimit", outcome, NoResponse, "validateApiKey")
  /\ RouteFrame

ValidateApiKeySettles ==
  /\ routePc = "validateApiKey"
  /\ \E outcome \in {Return(TRUE), Return(FALSE), UnexpectedError} :
       IF outcome = Return(FALSE)
       THEN Settles("validateApiKey", outcome, Json(401, "Invalid API key"), "responded")
       ELSE Settles("validateApiKey", outcome, NoResponse, "requestSchema.parse")
  /\ RouteFrame

\* request.json() settles and requestSchema.parse runs on the body
RequestJsonSettles ==
  /\ routePc = "requestSchema.parse"
  /\ LET outcome ==
           IF ~postRequest.body.json THEN Failure("SyntaxError", "Unexpected token")
           ELSE IF ~RequestSchemaAccepts(postRequest.body)
           THEN Failure("ZodError", "Invalid url")
           ELSE Return(postRequest.body.image)
     IN  Settles("requestSchema.parse", outcome, NoResponse, "cacheResponse")
  /\ RouteFrame

\* await cacheResponse(image)
CacheLookupSettles ==
  /\ routePc = "cacheResponse"
  /\ \E outcome \in {Return(""), Return("<html>cached</html>"), UnexpectedError} :
       IF outcome.kind = "return" /\ CachedResponseFound(outcome.value)
       THEN Settles("cacheResponse", outcome, Json(200, outcome.value), "responded")
       ELSE Settles("cacheResponse", outcome, NoResponse, "analyzeImage")
  /\ RouteFrame

AnalyzeImageSettles ==
  /\ routePc = "analyzeImage"
  /\ \E outcome \in {Return(TRUE), Return(FALSE),
                       Failure("Error", "Failed to analyze wireframe")} :
       IF outcome = Return(TRUE)
       THEN Settles("analyzeImage", outcome, NoResponse, "processImages")
       ELSE Settles("analyzeImage", outcome, NoResponse, "generateHtml")
  /\ RouteFrame

ProcessImagesSettles ==
  /\ routePc = "processImages"
  /\ \E outcome \in {Return(TRUE), Failure("Error", "Failed to process images")} :
       Settles("processImages", outcome, NoResponse, "generateHtml")
  /\ RouteFrame

\* generateHtml settles; on success cacheResponse(image, html) is called
GenerateHtmlSettles ==
  /\ routePc = "generateHtml"
  /\ \E outcome \in {Return("<html>new</html>"),
                       Failure("Error", "Failed to generate HTML")} :
       Settles("generateHtml", outcome, NoResponse, "cacheResponse write")
  /\ RouteFrame

CacheWriteSettles ==
  /\ routePc = "cacheResponse write"
  /\ \E outcome \in {Return("<html>new</html>"), UnexpectedError} :
       Settles("cacheResponse write", outcome, Json(200, "<html>new</html>"), "responded")
  /\ RouteFrame

RouteInit == Idle /\ NoOthers

RouteNext ==
  \/ PostArrives
  \/ RateLimitSettles
  \/ ValidateApiKeySettles
  \/ RequestJsonSettles
  \/ CacheLookupSettles
  \/ AnalyzeImageSettles
  \/ ProcessImagesSettles
  \/ GenerateHtmlSettles
  \/ CacheWriteSettles

RouteSpec == RouteInit /\ [][RouteNext]_vars

(* ------------------------ Monitoring.updateHealth ---------------------- *)

\* HealthStatus
HEALTHY == "healthy"
DEGRADED == "degraded"
UNHEALTHY == "unhealthy"

\* this.healthStatus.checks[service] = { status, ... }
PutCheck(checks, service, status) ==
  [s \in (DOMAIN checks) \cup {service} |->
     IF s = service THEN status ELSE checks[s]]

OverallOfLatest(checks, latest) == latest
\* the overall status updateHealth sets from the statuses of all checks;
\* latest is the status it was called with
Overall(checks, latest) ==
  LET statuses == {checks[s] : s \in DOMAIN checks}
  IN  IF UNHEALTHY \in statuses THEN UNHEALTHY
      ELSE IF DEGRADED \in statuses THEN DEGRADED
      ELSE HEALTHY

\* what updateHealth leaves in healthStatus
UpdateHealth(health, service, status) ==
  LET checks == PutCheck(health.checks, service, status)
  IN  [checks |-> checks, status |-> Overall(checks, status)]

\* checkOpenAI after its fetch: response.ok, another status, or a failure
CheckOpenAI(health, fetched) ==
  UpdateHealth(health, "openai",
    IF fetched.kind = "throw" THEN UNHEALTHY
    ELSE IF fetched.value THEN HEALTHY ELSE DEGRADED)

\* checkCloudflareR2: are the three credentials configured
CheckCloudflareR2(health, configured) ==
  UpdateHealth(health, "cloudflare-r2", IF configured THEN HEALTHY ELSE DEGRADED)

\* the status of the response of GET /api/health
HealthResponseStatus(status) ==
  IF status = HEALTHY THEN 200 ELSE IF status = DEGRADED THEN 200 ELSE 503

(* ------------------------- GET /api/health at work --------------------- *)

Services == {"openai", "cloudflare-r2", "database"}
Statuses == {HEALTHY, DEGRADED, UNHEALTHY}

HealthFrame ==
  /\ UNCHANGED <<pngVars, pc, call, ret, designVars, agentVars, logVars>>
  /\ UNCHANGED <<canvasVars, uploadVars, routeVars, errorVars>>

\* monitoring.updateHealth(service, status) by any caller
CallUpdateHealth ==
  /\ \E service \in Services, status \in Statuses :
       LET health == UpdateHealth([checks |-> healthChecks, status |-> healthOverall],
                                  service, status)
       IN  /\ healthChecks' = health.checks
           /\ healthOverall' = health.status
  /\ UNCHANGED healthGets
  /\ HealthFrame

\* GET runs up to the fetch of checkOpenAI; health is the object
\* monitoring.getHealth() returned, the one updateHealth writes to
HealthGetArrives(r) ==
  /\ healthGets[r].pc = "idle"
  /\ healthGets' = [healthGets EXCEPT ![r].pc = "fetching"]
  /\ UNCHANGED <<healthChecks, healthOverall>>
  /\ HealthFrame

\* the fetch settles: both checks report and GET answers from health
HealthFetchSettles(r) ==
  /\ healthGets[r].pc = "fetching"
  /\ \E fetched \in {Return(TRUE), Return(FALSE), Throw("fetch failed")},
        configured \in BOOLEAN :
       LET health ==
             CheckCloudflareR2(
               CheckOpenAI([checks |-> healthChecks, status |-> healthOverall],
                           fetched),
               configured)
       IN  /\ healthChecks' = health.checks
           /\ healthOverall' = health.status
           /\ healthGets' = [healthGets EXCEPT
                ![r] = [pc |-> "answered",
                        status |-> HealthResponseStatus(health.status),
                        unhealthy |-> \E s \in DOMAIN health.checks :
                                        health.checks[s] = UNHEALTHY]]
  /\ HealthFrame

HealthInit == Idle /\ NoOthers

HealthNext ==
  \/ CallUpdateHealth
  \/ \E r \in HealthGetters : HealthGetArrives(r)
  \/ \E r \in HealthGetters : HealthFetchSettles(r)

HealthSpec == HealthInit /\ [][HealthNext]_vars

(* ------------------------------ ErrorHandler --------------------------- *)

\* enum ErrorCode
ErrorCode ==
  [INVALID_INPUT |-> 400, UNAUTHORIZED |-> 401, FORBIDDEN |-> 403,
   NOT_FOUND |-> 404, RATE_LIMITED |-> 429,
   INTERNAL_ERROR |-> 500, SERVICE_UNAVAILABLE |-> 503, TIMEOUT |-> 504,
   DESIGN_GENERATION_FAILED |-> 600, EXPORT_FAILED |-> 601,
   STORAGE_ERROR |-> 602,
   AI_SERVICE_ERROR |-> 700, CLOUDFLARE_ERROR |-> 701, DATABASE_ERROR |-> 702]

\* new AppError(code, message)
AppError(code, message) ==
  [kind |-> "throw", class |-> "AppError", code |-> code, message |-> message]

\* ErrorHandler.handle
Handle(error) ==
  IF error.class = "AppError" THEN error
  ELSE IF error.class = "AIError"
  THEN AppError(ErrorCode.AI_SERVICE_ERROR, error.message)
  ELSE AppError(ErrorCode.INTERNAL_ERROR, "An unexpected error occurred")

\* AppError.toJSON
ToJSON(appError) ==
  [code |-> appError.code,
   type |-> CHOOSE name \in DOMAIN ErrorCode : ErrorCode[name] = appError.code,
   message |-> appError.message]

\* ErrorHandler.toResponse
ToResponse(error) ==
  LET appError == Handle(error)
  IN  [status |-> appError.code \div 100, body |-> ToJSON(appError)]

(* --------------------------- ErrorHandler at work ---------------------- *)

ErrorMessages == {"Design not found", "Service unavailable: openai", "boom"}

\* what a catch block can hand to ErrorHandler
ErrorValues ==
  {AppError(ErrorCode[name], message) :
     name \in DOMAIN ErrorCode, message \in ErrorMessages}
    \cup {AIError(type, message) : type \in {"API"}, message \in ErrorMessages}
    \cup {Failure(class, message) :
            class \in {"Error", "string"}, message \in ErrorMessages}

\* a call of ErrorHandler on the value that was thrown
ErrorHandlerCall(op, outcome) ==
  /\ pc = "ready"
  /\ pc' = "returned"
  /\ call' = [op |-> op, arg |-> thrown]
  /\ ret' = Return(outcome)
  /\ UNCHANGED <<pngVars, designVars, agentVars, logVars>>
  /\ UNCHANGED <<canvasVars, uploadVars, routeVars, healthVars, errorVars>>

CallHandle == ErrorHandlerCall("handle", Handle(thrown))

CallToResponse == ErrorHandlerCall("toResponse", ToResponse(thrown))

ErrorInit ==
  /\ Idle
  /\ NoCanvas /\ NoUploads /\ NoPosts /\ NoHealth
  /\ thrown \in ErrorValues
  /\ errorLog = <<>>

ErrorNext ==
  \/ CallHandle
  \/ CallToResponse

ErrorSpec == ErrorInit /\ [][ErrorNext]_vars

(* ------------------------------ ErrorLogging --------------------------- *)

\* getRecentErrors(count: number = 10)
DEFAULT_COUNT == 10

\* the ErrorDetails logError builds (stack, context and timestamp left out)
ErrorDetails(error, severity) ==
  [message |-> error.message, severity |-> severity]

\* this.errors.push(errorDetails)
LogError(errors, error, severity) == Append(errors, ErrorDetails(error, severity))

\* what logError writes to the console
LogErrorConsole(environment, errorDetails) ==
  IF environment = "development"
  THEN <<Emit("error", <<"Error logged:", errorDetails>>)>>
  ELSE <<>>

\* this.errors.slice(-count)
GetRecentErrors(errors, count) == Slice(errors, -count, Len(errors))

(* --------------------------- ErrorLogging at work ---------------------- *)

Severities == {"medium", "critical"}

LoggedErrors == {Failure("Error", message) : message \in {"boom", "Request timeout"}}

\* the counts getRecentErrors is called with; none is the default
Counts == 0 .. MaxErrors + 1 \cup {DEFAULT_COUNT}

ErrorLogFrame ==
  /\ UNCHANGED <<pngVars, designVars, agentVars, nodeEnv, enableTestLogs>>
  /\ UNCHANGED <<canvasVars, uploadVars, routeVars, healthVars, thrown>>

CallLogError ==
  /\ Len(errorLog) < MaxErrors
  /\ \E error \in LoggedErrors, severity \in Severities :
       /\ errorLog' = LogError(errorLog, error, severity)
       /\ console' = console \o LogErrorConsole(nodeEnv, ErrorDetails(error, severity))
       /\ call' = [op |-> "logError", arg |-> 0]
  /\ pc' = "ready"
  /\ UNCHANGED ret
  /\ ErrorLogFrame

CallGetRecentErrors ==
  /\ \E count \in Counts :
       /\ call' = [op |-> "getRecentErrors", arg |-> count]
       /\ ret' = Return(GetRecentErrors(errorLog, count))
  /\ pc' = "returned"
  /\ UNCHANGED <<errorLog, console>>
  /\ ErrorLogFrame

ErrorLogInit ==
  /\ NoPng
  /\ pc = "ready"
  /\ call = NoCall
  /\ ret = Return(<<>>)
  /\ NoDesigns
  /\ NoAgent
  /\ nodeEnv \in {"development", "production"}
  /\ enableTestLogs = FALSE
  /\ console = <<>>
  /\ NoOthers

ErrorLogNext ==
  \/ CallLogError
  \/ CallGetRecentErrors

ErrorLogSpec == ErrorLogInit /\ [][ErrorLogNext]_vars

(* ------------------- what the layout says about a buffer --------------- *)

\* the index of the first IEND chunk of the layout, 0 when it has none
FirstIend ==
  IF \E k \in 1 .. Len(layout) : layout[k].type = IEND
  THEN CHOOSE k \in 1 .. Len(layout) :
         /\ layout[k].type = IEND
         /\ \A j \in 1 .. k - 1 : layout[j].type # IEND
  ELSE 0

\* the chunks of the PNG: those before its first IEND
Stream == IF FirstIend = 0 THEN {} ELSE 1 .. FirstIend - 1
Of(type) == {k \in Stream : layout[k].type = type}
Lowest(S) == CHOOSE k \in S : \A j \in S : k <= j
Highest(S) == CHOOSE k \in S : \A j \in S : k >= j

\* the buffer is a complete PNG, possibly followed by further bytes
WellFormed == variant.kind = "trail" /\ FirstIend # 0

\* the table entry that describes chunk k of the layout
EntryOf(k) ==
  [start |-> StartOf(layout, k), dataOffset |-> StartOf(layout, k) + 8,
   size |-> layout[k].data]

Did(op) == pc = "returned" /\ call.op = op
OnInput == written = <<>>

(* ------------------------------- C1 ------------------------------------ *)

\* C1: on a PNG that holds one pHYs chunk, with or without an IDAT chunk
\* after it, setPhysChunk returns a buffer as long as its input in which the
\* new 21-byte chunk starts where the old pHYs chunk started.
C1_ReplacesInPlace ==
  (Did("setPhysChunk") /\ OnInput /\ WellFormed /\ Cardinality(Of(PHYS)) = 1)
    => /\ ret.kind = "return"
       /\ Len(ret.value) = Len(view)
       /\ Slice(ret.value, StartOf(layout, Lowest(Of(PHYS))),
                StartOf(layout, Lowest(Of(PHYS))) + PHYS_CHUNK_BYTES)
            = PhysData(call.arg)

(* ------------------------------- C2 ------------------------------------ *)

\* w >>> 1
WordShr1(w) == <<w[1] \div 2, (w[1] % 2) * 32768 + (w[2] \div 2)>>

RECURSIVE Crc32Bits(_, _)
\* k shift steps of the reflected CRC register, polynomial 0xEDB88320
Crc32Bits(reg, k) ==
  IF k = 0 \/ reg \notin Word THEN reg
  ELSE Crc32Bits(IF reg[2] % 2 = 1
                 THEN WordXor(WordShr1(reg), <<\hEDB8, \h8320>>)
                 ELSE WordShr1(reg), k - 1)

RECURSIVE Crc32From(_, _, _)
Crc32From(bytes, i, reg) ==
  IF i > Len(bytes) \/ reg \notin Word THEN reg
  ELSE Crc32From(bytes, i + 1, Crc32Bits(WordXor(reg, <<0, bytes[i]>>), 8))

\* the PNG / zlib CRC32: register of all ones, result complemented
Crc32(bytes) == WordNot(Crc32From(bytes, 1, <<65535, 65535>>))

\* C2: calculateCRC without a previous value is the standard CRC32, and the
\* last four bytes of the chunk setPhysChunk writes are the standard CRC32
\* of the chunk's 13 type and data bytes.
C2_CrcIsStandard ==
  /\ (Did("calculateCRC") => ret.value = Crc32(CrcInput(call.arg)))
  /\ (Did("setPhysChunk") /\ OnInput /\ ret.kind = "return"
        => Slice(ret.value, NewChunkAt + 17, NewChunkAt + 21)
             = WordBytes(Crc32(Slice(ret.value, NewChunkAt + 4, NewChunkAt + 17))))

(* ------------------------------- C3 ------------------------------------ *)

\* the state after parsePhys was applied to the payload of the chunk that
\* setPhysChunk wrote for a positive dpr
ParsedWritten ==
  /\ Did("parsePhys")
  /\ written # <<>>
  /\ call.arg = NewChunkAt + 8
  /\ ret.kind = "return"

C4_UnitIsNinthByte ==
  /\ (Did("parsePhys") /\ ret.kind = "return" /\ InBounds(view, call.arg, 9)
        => /\ ret.value.ppux = GetUint32(view, call.arg)
           /\ ret.value.ppuy = GetUint32(view, call.arg + 4)
           /\ ret.value.unit = GetUint8(view, call.arg + 8))
  /\ (ParsedWritten => ret.value.unit = 1)

(* ------------------------------- C5 ------------------------------------ *)

\* setPhysChunk was applied to a PNG with an IDAT chunk and no pHYs chunk
C5_Case ==
  Did("setPhysChunk") /\ OnInput /\ WellFormed /\ Of(PHYS) = {} /\ Of(IDAT) # {}

\* C5: on a PNG with an IDAT chunk and no pHYs chunk, setPhysChunk returns
\* the input with exactly 21 bytes inserted at the start offset of the first
\* IDAT chunk.
C5_InsertsBeforeIdat ==
  C5_Case
    => LET at == StartOf(layout, Lowest(Of(IDAT)))
       IN  /\ ret.kind = "return"
           /\ Len(ret.value) = Len(view) + PHYS_CHUNK_BYTES
           /\ SubSeq(ret.value, 1, at) = SubSeq(view, 1, at)
           /\ SubSeq(ret.value, at + PHYS_CHUNK_BYTES + 1, Len(ret.value))
                = SubSeq(view, at + 1, Len(view))

C5_Witness == C5_Case /\ ret.kind = "return" /\ Len(ret.value) > Len(view)

(* ------------------------------- C6 ------------------------------------ *)

\* C6: on a PNG that holds one pHYs chunk, the output of setPhysChunk is the
\* input before the old chunk, the new chunk, and the input after the old
\* chunk's CRC.
C6_RemovesOldChunk ==
  (Did("setPhysChunk") /\ OnInput /\ WellFormed /\ Cardinality(Of(PHYS)) = 1)
    => LET at == StartOf(layout, Lowest(Of(PHYS)))
       IN  /\ ret.kind = "return"
           /\ ret.value = SubSeq(view, 1, at) \o PhysData(call.arg)
                            \o SubSeq(view, at + PHYS_CHUNK_BYTES + 1, Len(view))

(* ------------------------------- C7 ------------------------------------ *)

\* readChunks was applied to a PNG with two or more IDAT chunks
C7_Case == Did("readChunks") /\ OnInput /\ WellFormed /\ Cardinality(Of(IDAT)) >= 2

\* C7: on a PNG with two or more IDAT chunks readChunks returns a table
\* whose IDAT entry is the first IDAT chunk, and every other chunk of the
\* PNG, also one behind a later IDAT chunk, is entered at its true offsets.
C7_FirstIdatKept ==
  C7_Case
    => /\ ret.kind = "return"
       /\ ret.value[IDAT] = EntryOf(Lowest(Of(IDAT)))
       /\ \A k \in Stream :
            layout[k].type # IDAT
              => ret.value[layout[k].type] = EntryOf(Highest(Of(layout[k].type)))

\* ... and a chunk of another type follows the second IDAT chunk
C7_Witness ==
  /\ C7_Case
  /\ ret.kind = "return"
  /\ \E k \in Stream : layout[k].type # IDAT /\ \E j \in Of(IDAT) : Lowest(Of(IDAT)) < j /\ j < k

(* ------------------------------- C8 ------------------------------------ *)

\* C8: on a complete PNG readChunks returns a table whose keys are the
\* types of the chunks before the first IEND; IEND is no key, and the table
\* is the one read from the same PNG cut off right after its IEND chunk.
C8_KeysBeforeIend ==
  (Did("readChunks") /\ OnInput /\ WellFormed)
    => /\ ret.kind = "return"
       /\ DOMAIN ret.value = {layout[k].type : k \in Stream}
       /\ IEND \notin DOMAIN ret.value
       /\ ret = ReadChunks(PngBytes(SubSeq(layout, 1, FirstIend)), 0)
       /\ (layout = <<IhdrChunk, Chunk(PHYS, 9, 9), Chunk(IDAT, 1, 1), IendChunk>>
             => DOMAIN ret.value = {IHDR, PHYS, IDAT})

\* readChunks returned on a PNG that is followed by further chunks or bytes
C8_Witness ==
  /\ Did("readChunks") /\ OnInput /\ WellFormed
  /\ ret.kind = "return"
  /\ FirstIend < Len(layout)
  /\ variant.arg > 0

(* ------------------------------- C9 ------------------------------------ *)

\* C9: readChunks returns a table only if every chunk it entered lies
\* inside the buffer, and only if the scan met an IEND chunk.
C9_TruncationFails ==
  (Did("readChunks") /\ ret.kind = "return")
    => /\ \A t \in DOMAIN ret.value :
            ret.value[t].start + 12 + ret.value[t].size <= Len(view)
       /\ (OnInput /\ variant.kind \in {"trail", "cut"} => FirstIend # 0)

(* ------------------------------- C10 ----------------------------------- *)

\* C10: readChunks on a buffer without the signature fails with the
\* invalid-signature error, which differs from the error of a scan that
\* runs past the end of the buffer (here: of the bare signature).
C10_SignatureErrorDistinct ==
  (Did("readChunks") /\ IsPng(view, 0) # Return(TRUE))
    => /\ ret.kind = "throw"
       /\ ret.message = "Invalid PNG signature"
       /\ ret # ReadChunks(SIGNATURE, 0)

(* ------------------------------- C11 ----------------------------------- *)

SignatureAt(offset) ==
  /\ InBounds(view, offset, Len(SIGNATURE))
  /\ \A i \in 1 .. Len(SIGNATURE) : view[offset + i] = SIGNATURE[i]

\* C11: isPng(buffer, offset) never raises an error; it returns true exactly
\* when the 8 bytes at offset .. offset + 7 all lie inside the buffer and are
\* the PNG signature, and false otherwise, a buffer holding fewer than 8
\* bytes from offset included.
C11_IsPngNeverRaises ==
  Did("isPng") => ret = Return(SignatureAt(call.arg))

\* isPng has answered false on a buffer that ends before offset + 8
C11_Witness ==
  /\ Did("isPng")
  /\ ~InBounds(view, call.arg, Len(SIGNATURE))
  /\ ret = Return(FALSE)

(* ------------------------------- C12 ----------------------------------- *)

\* C12: findChunk(buffer, type) returns an absent result rather than raising
\* an error: whenever no chunk of the requested type can be found, be it
\* that readChunks' table has no such key or that the buffer fails the
\* signature test or is truncated, the outcome is absent.
C12_FindChunkAbsent ==
  Did("findChunk")
    => LET chunks == ReadChunks(view, 0)
       IN  (\/ chunks.kind = "throw"
            \/ chunks.kind = "return" /\ call.arg \notin DOMAIN chunks.value)
             => ret = Return(Undefined)

(* ------------------------------- C13 ----------------------------------- *)

\* C13: when annotating the exported image fails, that is when setPhysChunk
\* raises an error on the Blob the canvas produced (a Blob that is not a
\* PNG, for one), getSvgAsImage returns that Blob un-annotated, not null.
C13_FallsBackToBlob ==
  (/\ Did("getSvgAsImage")
   /\ call.arg.canvas
   /\ call.arg.blob # Null
   /\ SetPhysChunk(call.arg.blob, call.arg.scale).kind = "throw")
    => ret = Return(call.arg.blob)

(* ------------------------------- C14 ----------------------------------- *)

\* setPhysChunk was called on a buffer readChunks parses and in which it
\* finds neither a pHYs nor an IDAT chunk
C14_Case ==
  /\ Did("setPhysChunk")
  /\ OnInput
  /\ ReadChunks(view, 0).kind = "return"
  /\ DOMAIN ReadChunks(view, 0).value \cap {PHYS, IDAT} = {}

\* C14: on such a buffer setPhysChunk does not fail: the 21-byte chunk is
\* inserted at byte offset 46, or at the end of a buffer shorter than 46
\* bytes, no input byte is removed and the result is 21 bytes longer.
C14_FallsBackToOffset46 ==
  C14_Case
    => /\ ret.kind = "return"
       /\ LET at == IF Len(view) < 46 THEN Len(view) ELSE 46
              out == ret.value
          IN  /\ Len(out) = Len(view) + 21
              /\ SubSeq(out, 1, at) = SubSeq(view, 1, at)
              /\ SubSeq(out, at + 1, at + 8) = <<0, 0, 0, 9>> \o PHYS
              /\ SubSeq(out, at + 22, Len(out)) = SubSeq(view, at + 1, Len(view))

\* the chunk was inserted inside a buffer longer than 46 bytes
C14_Witness == C14_Case /\ Len(view) > 46 /\ ret.kind = "return"

(* ------------------------------- C15 ----------------------------------- *)

\* C15: setPhysChunk, readChunks, findChunk, parsePhys and isPng leave every
\* byte of the buffer they are called on unchanged, whether they return
\* normally or fail, and what setPhysChunk returns is another buffer than
\* the one it was given.
C15_InputNotMutated ==
  [][(pc = "ready" /\ pc' = "returned")
       => /\ view' = view
          /\ (call'.op = "setPhysChunk" /\ ret'.kind = "return")
               => ret'.value # view]_vars

\* setPhysChunk has made its stores and returned
C15_Witness == Did("setPhysChunk") /\ ret.kind = "return" /\ view = input

(* ------------------------------- C16 ----------------------------------- *)

\* the version a design has before an update: the one last returned for
\* its id, 1 for a design only storage knows
VersionBefore(designId) ==
  IF versions[designId] = 0 THEN 1 ELSE versions[designId]

\* C16: each successful updateDesign(id, updates) returns a design whose
\* version is one greater than the design's version before that update, so
\* that k successive updates of a design end at version k + 1, and it
\* uploads the new content under the same id when the update carries
\* content.
C16_VersionGrowsByOne ==
  [][(call'.op = "updateDesign" /\ ret'.kind = "return")
       => /\ ret'.value.version = VersionBefore(call'.arg.id) + 1
          /\ "content" \in DOMAIN call'.arg.updates
               => \E i \in DOMAIN requests' :
                    /\ requests'[i].method = "uploadDesign"
                    /\ requests'[i].id = call'.arg.id
                    /\ JsonParse(requests'[i].body)
                         = Return(call'.arg.updates.content)]_vars

(* ------------------------------- C17 ----------------------------------- *)

Uploads == {i \in DOMAIN requests : requests[i].method = "uploadDesign"}

\* C17: createDesign(userId, title, content) uploads JSON.stringify(content)
\* under the new design's id exactly once, and returns a design only after
\* that upload has succeeded: one with the given userId, title and content,
\* version 1, status DRAFT and an empty description.
C17_CreateUploadsOnce ==
  Did("createDesign")
    => /\ Cardinality(Uploads) = 1
       /\ \A i \in Uploads :
            /\ requests[i].id = call.arg.id
            /\ JsonParse(requests[i].body) = Return(call.arg.content)
            /\ ret.kind = "return" => requests[i].resolved
       /\ ret.kind = "return"
            => ret.value = [id |-> call.arg.id, userId |-> call.arg.userId,
                            title |-> call.arg.title, description |-> "",
                            content |-> call.arg.content, version |-> 1,
                            status |-> "DRAFT"]

\* createDesign has returned a design
C17_Witness ==
  Did("createDesign") /\ ret.kind = "return" /\ Len(requests) = 1

(* ------------------------------- C18 ----------------------------------- *)

FailureMessage ==
  [createDesign |-> "Failed to create design",
   getDesign |-> "Failed to retrieve design",
   deleteDesign |-> "Failed to delete design"]

\* C18: when the storage call fails, createDesign, getDesign and
\* deleteDesign reject with 'Failed to create design', 'Failed to retrieve
\* design' and 'Failed to delete design'; the storage error does not
\* propagate and no design is returned.
C18_StorageFailureReplaced ==
  (/\ pc = "returned"
   /\ call.op \in DOMAIN FailureMessage
   /\ \E i \in DOMAIN requests : ~requests[i].resolved)
    => ret = Throw(FailureMessage[call.op])

\* storage.getDesign was rejected and getDesign has failed
C18_Witness ==
  /\ Did("getDesign")
  /\ Len(requests) = 1
  /\ ~requests[1].resolved
  /\ ret.kind = "throw"

(* ------------------------------- C19 ----------------------------------- *)

\* generateDesign is over and the last call of the model API failed with
\* an error that is no AIError
C19_Case ==
  /\ Did("generateDesign")
  /\ attempts # <<>>
  /\ attempts[Len(attempts)].kind = "throw"
  /\ attempts[Len(attempts)].class # "AIError"

\* C19: whenever the model API call ultimately fails with an error that is
\* not an AIError, with or without retries before, generateDesign rejects
\* with an error whose message is 'Failed to generate design' and does not
\* resolve with a response.
C19_ApiFailureWrapped ==
  C19_Case => ret.kind = "throw" /\ ret.message = "Failed to generate design"

\* the API call has failed for good after retries
C19_Witness == C19_Case /\ Len(attempts) > 1 /\ ret.kind = "throw"

(* ------------------------------- C20 ----------------------------------- *)

\* the formatted message of the last call was written on this channel
WrittenOn(channel) ==
  \E i \in DOMAIN console :
    /\ console[i].channel = channel
    /\ console[i].args[1]
         = <<"[", Timestamp, "] ", call.arg.level, " [", Context, "] ",
             call.arg.message>>

\* C20: info(), warn() and error() write the formatted message on
\* console.info, console.warn and console.error in every environment;
\* debug() writes on console.debug in development and writes nothing in
\* production.
C20_OwnChannelPerLevel ==
  /\ Did("info") => WrittenOn("info")
  /\ Did("warn") => WrittenOn("warn")
  /\ Did("error") => WrittenOn("error")
  /\ (Did("debug") /\ nodeEnv = "development") => WrittenOn("debug")
  /\ (Did("debug") /\ nodeEnv = "production") => console = <<>>

(* ------------------------------- C21 ----------------------------------- *)

\* C21: readChunks ends on every finite buffer: its scan position grows on
\* every iteration, also past a length field with the top bit set, so the
\* loop never comes back to an offset and the call always settles.
C21_ReadChunksTerminates ==
  Did("readChunks") => ret.kind \in {"return", "throw"}

(* ------------------------------- C22 ----------------------------------- *)

\* readChunks was applied to the output of setPhysChunk on a PNG that holds
\* an IDAT chunk
C22_Case ==
  Did("readChunks") /\ ~OnInput /\ WellFormed /\ Of(IDAT) # {}

\* the table places a pHYs entry of size 9 before the IDAT entry
C22_PhysBeforeIdat ==
  /\ ret.kind = "return"
  /\ {PHYS, IDAT} \subseteq DOMAIN ret.value
  /\ ret.value[PHYS].size = 9
  /\ ret.value[PHYS].start < ret.value[IDAT].start

\* C22 as stated: when setPhysChunk succeeds on a PNG with an IDAT chunk,
\* readChunks on its output returns a table whose pHYs entry has size 9 and
\* starts before the IDAT entry.
C22_RereadFindsNewPhys == C22_Case => C22_PhysBeforeIdat

\* C22: when setPhysChunk succeeds on a PNG with an IDAT chunk and no pHYs
\* chunk behind its first IDAT chunk, readChunks on its output returns a
\* table whose pHYs entry has size 9 and starts before the IDAT entry.
C22_RereadFindsPhysInOrder ==
  (C22_Case /\ \A k \in Of(PHYS) : k < Lowest(Of(IDAT))) => C22_PhysBeforeIdat

\* the output of setPhysChunk on a PNG with a pHYs chunk before its IDAT
\* chunk was read again
C22_Witness ==
  /\ C22_Case /\ Of(PHYS) # {}
  /\ \A k \in Of(PHYS) : k < Lowest(Of(IDAT))
  /\ C22_PhysBeforeIdat

(* ------------------------------- C23 ----------------------------------- *)

\* readChunks returned a table for the input buffer
C23_Case == Did("readChunks") /\ OnInput /\ ret.kind = "return"

\* C23: in the table readChunks returns, the entry of a type other than IDAT
\* that occurs more than once before IEND describes its last occurrence, and
\* every entry has dataOffset = start + 8 and the size its chunk declares.
C23_LastWinsAndOffsets ==
  C23_Case
    => /\ \A t \in DOMAIN ret.value :
            \E k \in 1 .. Len(layout) :
              /\ layout[k].type = t
              /\ ret.value[t].start = StartOf(layout, k)
              /\ ret.value[t].dataOffset = ret.value[t].start + 8
              /\ ret.value[t].size = Damaged(layout, variant)[k].len
       /\ WellFormed
            => \A t \in (DOMAIN ret.value) \ {IDAT} :
                 ret.value[t] = EntryOf(Highest(Of(t)))

\* ... for a PNG that holds two chunks of a type other than IDAT
C23_Witness ==
  /\ C23_Case /\ WellFormed
  /\ \E t \in (DOMAIN ret.value) \ {IDAT} : Cardinality(Of(t)) >= 2

(* ------------------------------- C24 ----------------------------------- *)

\* C24: every call of getBrowserCanvasMaxSize, in every interleaving and
\* also after or during a detection that timed out, resolves with the
\* detected size or with the fallback dimensions and never rejects; the
\* detection is started at most once.
C24_NeverRejects ==
  /\ \A c \in SizeCallers :
       sizeCalls[c].pc = "settled"
         => /\ sizeCalls[c].ret.kind = "return"
            /\ \/ sizeCalls[c].ret = maxSizePromise
               \/ sizeCalls[c].ret.value = DEFAULT_OPTIONS.fallback
  /\ detections <= 1

(* ------------------------------- C25 ----------------------------------- *)

\* the failures withRetry answers with another invocation
C25_Retryable(error) ==
  /\ error.kind = "throw"
  /\ error.class = "Error"
  /\ error.message \in {"Request timeout", "rate_limit exceeded"}

\* what holds of withRetry at every point of a generateDesign
C25_Bounded ==
  /\ Len(attempts) <= MAX_RETRIES + 1
  /\ \A i \in 1 .. Len(attempts) - 1 : C25_Retryable(attempts[i])
  /\ retries = (IF pc = "sleeping" THEN retryCount + 1 ELSE retryCount)
  /\ Len(attempts) = (IF pc = "calling" \/ attempts = <<>> THEN retryCount
                      ELSE retryCount + 1)
  /\ pc = "sleeping"
       => Len(attempts) <= MAX_RETRIES /\ C25_Retryable(attempts[Len(attempts)])
  /\ (pc = "returned" /\ attempts # <<>>
        /\ attempts[Len(attempts)].kind = "throw") => ret.kind = "throw"

\* C25: withRetry invokes the operation at most MAX_RETRIES + 1 = 4 times
\* and always settles: it invokes it again only after a failure whose
\* message contains 'timeout' or 'rate_limit', throws any other failure
\* after the invocation that failed, counts each new invocation once in
\* metrics.retries, and throws the last error once 3 retries are used.
C25_RetriesBoundedAndSettles ==
  /\ []C25_Bounded
  /\ (pc = "calling") ~> (pc = "returned")

\* the fourth invocation has failed with a timeout and the call has thrown
C25_Witness ==
  /\ pc = "returned"
  /\ Len(attempts) = MAX_RETRIES + 1
  /\ C25_Retryable(attempts[Len(attempts)])
  /\ retries = MAX_RETRIES
  /\ ret.kind = "throw"

(* ------------------------------- C26 ----------------------------------- *)

\* the entry of image i is what its attempts led to: the URL of the one
\* successful attempt, which is the last, or after three failed attempts
\* the image's own URL
C26_EntryOf(i, entry) ==
  LET log == uploads[i].log
      last == log[Len(log)]
  IN  /\ Len(log) \in 1 .. UPLOAD_MAX_RETRIES
      /\ \A k \in 1 .. Len(log) - 1 : log[k].kind = "throw"
      /\ entry.width = images[i].imageWidth
      /\ IF last.kind = "return" THEN entry.url = last.value
         ELSE Len(log) = UPLOAD_MAX_RETRIES /\ entry.url = images[i].webformatURL

\* C26: uploadImages never rejects and resolves with one entry per image, in
\* the order of the images; an image is tried at most MAX_RETRIES = 3 times,
\* its entry carries the uploaded URL of the first attempt that succeeded or,
\* after the third failure, the image's original URL, and the throw behind
\* the loop is never reached.
C26_OneEntryPerImage ==
  /\ \A i \in ImageSlots :
       /\ Len(uploads[i].log) <= UPLOAD_MAX_RETRIES
       /\ uploads[i].ret.kind # "throw"
  /\ uploadResult.kind # "throw"
  /\ uploadResult.kind = "return"
       => /\ Len(uploadResult.value) = Len(images)
          /\ \A i \in 1 .. Len(images) : C26_EntryOf(i, uploadResult.value[i])

\* two different images: the first went through at its second attempt, the
\* second failed three times
C26_Witness ==
  /\ uploadResult.kind = "return"
  /\ Len(images) = 2
  /\ images[1] # images[2]
  /\ Len(uploads[1].log) = 2
  /\ uploads[1].log[2].kind = "return"
  /\ uploadResult.value[1].url = uploads[1].log[2].value
  /\ uploadResult.value[2].url = images[2].webformatURL

(* ------------------------------- C27 ----------------------------------- *)

\* the calls the handler has made for the request: those it has awaited and
\* the one it is waiting for
C27_Calls ==
  [i \in DOMAIN routeTrace |-> routeTrace[i].op]
    \o (IF routePc \in {"idle", "responded"} THEN <<>> ELSE <<routePc>>)

C27_External == {"analyzeImage", "processImages", "generateHtml"}

\* the request has passed the rate limit, the API key test and the schema,
\* and the cache had nothing for it
C27_Passed ==
  /\ Len(routeTrace) >= 4
  /\ routeTrace[1] = Awaited("rateLimit", Return(TRUE))
  /\ routeTrace[2] = Awaited("validateApiKey", Return(TRUE))
  /\ routeTrace[3].op = "requestSchema.parse"
  /\ routeTrace[3].outcome.kind = "return"
  /\ routeTrace[4] = Awaited("cacheResponse", Return(""))

\* C27: POST /api/activateAgent checks the rate limit, the API key, the
\* request schema and the cache in this order; it calls image analysis,
\* image search and upload or HTML generation only for a request that has
\* passed the first three and missed the cache, and it writes the cache only
\* after HTML generation has succeeded.
C27_ChecksBeforeCalls ==
  /\ \A i \in DOMAIN C27_Calls :
       /\ i <= 4 => C27_Calls[i] = <<"rateLimit", "validateApiKey",
                                     "requestSchema.parse", "cacheResponse">>[i]
       /\ i > 4 => C27_Calls[i] \in C27_External \cup {"cacheResponse write"}
  /\ (\E i \in DOMAIN C27_Calls : C27_Calls[i] \in C27_External) => C27_Passed
  /\ \A i \in DOMAIN C27_Calls :
       C27_Calls[i] = "cacheResponse write"
         => /\ i > 1
            /\ routeTrace[i - 1].op = "generateHtml"
            /\ routeTrace[i - 1].outcome.kind = "return"

\* a request went all the way: analysis, images, HTML, cache write
C27_Witness ==
  /\ routePc = "responded"
  /\ postResponse.status = 200
  /\ Len(routeTrace) = 8
  /\ C27_Passed

(* ------------------------------- C28 ----------------------------------- *)

\* the worst of a set of statuses, UNHEALTHY > DEGRADED > HEALTHY
C28_Worst(statuses) ==
  LET rank == [s \in Statuses |->
                 IF s = UNHEALTHY THEN 2 ELSE IF s = DEGRADED THEN 1 ELSE 0]
  IN  IF statuses = {} THEN HEALTHY
      ELSE CHOOSE s \in statuses : \A t \in statuses : rank[s] >= rank[t]

\* C28: after any updateHealth calls the overall health status is the worst
\* of the latest statuses of the services, and GET /api/health answers 503
\* exactly when some service is UNHEALTHY after the request's own checks.
C28_OverallIsWorst ==
  /\ healthOverall = C28_Worst({healthChecks[s] : s \in DOMAIN healthChecks})
  /\ \A r \in HealthGetters :
       healthGets[r].pc = "answered"
         => /\ healthGets[r].status = 503 <=> healthGets[r].unhealthy
            /\ healthGets[r].status \in {200, 503}

\* all three services have reported, the worst of them is degraded now, and
\* a request was answered 503 while one of them was unhealthy
C28_Witness ==
  /\ healthOverall = DEGRADED
  /\ DOMAIN healthChecks = Services
  /\ healthChecks["database"] = HEALTHY
  /\ \E r \in HealthGetters : healthGets[r].status = 503

(* ------------------------------- C29 ----------------------------------- *)

\* the ErrorCode values that are HTTP statuses
C29_HttpCodes == {400, 401, 403, 404, 429, 500, 503, 504}

\* C29: for every error value the status ErrorHandler.toResponse returns is
\* an HTTP error status in 400 .. 599, and it is the code of the AppError
\* whenever that code is an HTTP status.
C29_StatusIsHttpError ==
  Did("toResponse")
    => /\ ret.value.status \in 400 .. 599
       /\ (thrown.class = "AppError" /\ thrown.code \in C29_HttpCodes)
            => ret.value.status = thrown.code

(* ------------------------------- C30 ----------------------------------- *)

\* C30: getRecentErrors(n) returns, for every n >= 0, the most recent
\* min(n, total) logged errors in the order they were logged, and never
\* more than n entries.
C30_RecentAtMostN ==
  Did("getRecentErrors")
    => LET n == call.arg
           total == Len(errorLog)
           k == IF n < total THEN n ELSE total
       IN  /\ Len(ret.value) <= n
           /\ ret.value = SubSeq(errorLog, total - k + 1, total)

====
